---------------------------- MODULE Spec2Model ----------------------------
(***************************************************************************)
(* Snapshot diff and classification engine of osaudit (internal/diff) and  *)
(* the `osaudit diff` sub-command that drives it.                          *)
(*                                                                         *)
(* Conventions of the translation                                          *)
(*   - a Go string is a TLA+ string; HasPrefix, Sscanf and the string      *)
(*     order are computed character by character;                          *)
(*   - a Go map is a function; a nil map and an empty map are both the     *)
(*     function with the empty domain (the code never tells them apart     *)
(*     except for a nil Row, which is NilRow);                             *)
(*   - a value of type `any` read from a Row is an option: <<>> for nil    *)
(*     (key absent) and <<v>> for a present value v;                       *)
(*   - JSON numbers are integer valued;                                    *)
(*   - a type assertion `v.(string)` is decided on the value itself        *)
(*     (IsString), so a field may hold a string, a number or a boolean;    *)
(*   - `range` over a map visits the keys in an arbitrary order: where the *)
(*     result can depend on the order, the order is an explicit argument   *)
(*     and the caller chooses it nondeterministically.                     *)
(***************************************************************************)
EXTENDS Integers, Sequences, FiniteSets, TLC

(***************************************************************************)
(* Bounds of the model.                                                    *)
(***************************************************************************)
MaxItems == 3
MaxRuns == 2
MaxRows == 3
MaxCommands == 2

(***************************************************************************)
(* Generic helpers.                                                        *)
(***************************************************************************)
EmptyMap == [k \in {} |-> 0]

NilRow == [k \in {} |-> 0]

None == <<>>

Some(v) == <<v>>

Range(s) == {s[i] : i \in DOMAIN s}

Perms(S) == {s \in [1..Cardinality(S) -> S] : \A i, j \in 1..Cardinality(S) : s[i] = s[j] => i = j}

CharAt(s, i) == SubSeq(s, i, i)

\* The dynamic type of a value of type `any` is string (the printed form of a
\* string value, and of no other value, opens with a quotation mark).
IsString(v) == SubSeq(ToString(v), 1, 1) = "\""

\* s, ok := row[key].(string): <<s>> when ok, <<>> otherwise.
StringAt(row, key) == IF key \in DOMAIN row /\ IsString(row[key]) THEN Some(row[key]) ELSE None

\* strings.HasPrefix
HasPrefix(s, prefix) == Len(s) >= Len(prefix) /\ SubSeq(s, 1, Len(prefix)) = prefix

\* Byte order of the characters that occur in identifiers (ASCII order).
Alphabet == " +-.0123456789ABCDEFGHIJKLMNOPQRSTUVWXYZ_abcdefghijklmnopqrstuvwxyz"

Ord(c) == CHOOSE i \in 1..Len(Alphabet) : CharAt(Alphabet, i) = c

\* Go's `<` on strings: byte-wise lexicographic order.
RECURSIVE StrLess(_, _)
StrLess(a, b) ==
    IF Len(b) = 0 THEN FALSE
    ELSE IF Len(a) = 0 THEN TRUE
    ELSE IF Head(a) # Head(b) THEN Ord(Head(a)) < Ord(Head(b))
    ELSE StrLess(Tail(a), Tail(b))

Digits == "0123456789"

IsDigit(c) == \E i \in 1..Len(Digits) : CharAt(Digits, i) = c

RECURSIVE SkipSpace(_)
SkipSpace(s) == IF Len(s) > 0 /\ Head(s) = " " THEN SkipSpace(Tail(s)) ELSE s

RECURSIVE ScanNumber(_, _)
ScanNumber(s, acc) ==
    IF Len(s) > 0 /\ IsDigit(Head(s))
    THEN ScanNumber(Tail(s), 10 * acc + (CHOOSE i \in 1..Len(Digits) : CharAt(Digits, i) = Head(s)) - 1)
    ELSE acc

\* fmt.Sscanf(k, "%d", &c): leading blanks are skipped, an optional sign is
\* accepted, then the longest run of decimal digits is read; input after the
\* digits is left unread; no digit at all is an error (None).
Sscanf(k) ==
    LET s == SkipSpace(k)
        neg == Len(s) > 0 /\ Head(s) = "-"
        body == IF Len(s) > 0 /\ Head(s) \in {"+", "-"} THEN Tail(s) ELSE s
    IN  IF Len(body) > 0 /\ IsDigit(Head(body))
        THEN Some(IF neg THEN 0 - ScanNumber(body, 0) ELSE ScanNumber(body, 0))
        ELSE None

RECURSIVE DigitsOf(_)
DigitsOf(n) == IF n < 10 THEN CharAt(Digits, n + 1) ELSE DigitsOf(n \div 10) \o CharAt(Digits, (n % 10) + 1)

\* strconv.Itoa
Itoa(n) == IF n < 0 THEN "-" \o DigitsOf(0 - n) ELSE DigitsOf(n)

(***************************************************************************)
(* Classification tables (classify.go).                                    *)
(***************************************************************************)
probeSeverityPrefix ==
    << [prefix |-> "config.", sev |-> "high"],
       [prefix |-> "network.defaults_", sev |-> "high"],
       [prefix |-> "network.socketfilterfw_", sev |-> "high"],
       [prefix |-> "identity.dscl_", sev |-> "medium"],
       [prefix |-> "identity.dseditgroup_", sev |-> "medium"],
       [prefix |-> "network.ifconfig_", sev |-> "medium"],
       [prefix |-> "network.lsof_", sev |-> "medium"],
       [prefix |-> "network.scutil_", sev |-> "medium"],
       [prefix |-> "execution.launchctl_", sev |-> "medium"],
       [prefix |-> "execution.ps_", sev |-> "low"],
       [prefix |-> "persistence.", sev |-> "medium"] >>

probeSeverityExact == [p \in {"network.socketfilterfw_stealth"} |-> "high"]

probeExpectedExitCodes ==
    [p \in {"config.fdesetup_status", "config.defaults_firewall_globalstate",
            "config.defaults_screen_lock_delay", "network.defaults_firewall_globalstate",
            "identity.dscl_list_users", "identity.dseditgroup_checkmember"} |->
        CASE p = "config.fdesetup_status" -> {15, 1}
          [] p = "identity.dscl_list_users" -> {70, 1}
          [] OTHER -> {1}]

probeTopic ==
    [p \in {"config.", "network.", "identity.", "storage.", "execution.", "persistence."} |->
        CASE p = "config." -> "Security"
          [] p = "network." -> "Network"
          [] p = "identity." -> "Identity"
          [] p = "storage." -> "Storage"
          [] p = "execution." -> "Execution"
          [] p = "persistence." -> "Persistence"]

\* The keys of probeTopic in the order the source declares them.
probeTopicDeclared ==
    <<"config.", "network.", "identity.", "storage.", "execution.", "persistence.">>

TopicOrder == <<"Security", "Network", "Identity", "Storage", "Execution", "Persistence", "Other">>

SeverityOrder == [s \in {"high", "medium", "low"} |->
                    CASE s = "high" -> 0 [] s = "medium" -> 1 [] s = "low" -> 2]

(***************************************************************************)
(* Classification lookups (classify.go).                                   *)
(***************************************************************************)
\* The prefix loop stopping one entry short of the end of the table.
RECURSIVE FirstPrefixSeverity_OffByOne(_, _)
FirstPrefixSeverity_OffByOne(probe, i) ==
    IF i >= Len(probeSeverityPrefix) THEN "low"
    ELSE IF HasPrefix(probe, probeSeverityPrefix[i].prefix) THEN probeSeverityPrefix[i].sev
    ELSE FirstPrefixSeverity_OffByOne(probe, i + 1)

RECURSIVE FirstPrefixSeverity(_, _)
FirstPrefixSeverity(probe, i) ==
    IF i > Len(probeSeverityPrefix) THEN "low"
    ELSE IF HasPrefix(probe, probeSeverityPrefix[i].prefix) THEN probeSeverityPrefix[i].sev
    ELSE FirstPrefixSeverity(probe, i + 1)

ProbeSeverity(probe) ==
    IF probe \in DOMAIN probeSeverityExact THEN probeSeverityExact[probe]
    ELSE FirstPrefixSeverity(probe, 1)

\* ProbeTopic with the arguments of strings.HasPrefix exchanged.
RECURSIVE ProbeTopic_SwappedArgs(_, _)
ProbeTopic_SwappedArgs(probe, ord) ==
    IF Len(ord) = 0 THEN "Other"
    ELSE IF HasPrefix(Head(ord), probe) THEN probeTopic[Head(ord)]
    ELSE ProbeTopic_SwappedArgs(probe, Tail(ord))

\* `for prefix, topic := range probeTopic` returns at the first matching prefix
\* of an arbitrary visiting order `ord` of the table's keys.
RECURSIVE ProbeTopic(_, _)
ProbeTopic(probe, ord) ==
    IF Len(ord) = 0 THEN "Other"
    ELSE IF HasPrefix(probe, Head(ord)) THEN probeTopic[Head(ord)]
    ELSE ProbeTopic(probe, Tail(ord))

\* The results ProbeTopic can return: the first match of some visiting order
\* is any matching prefix.
ProbeTopicOutcomes(probe) ==
    LET matching == {pre \in DOMAIN probeTopic : HasPrefix(probe, pre)}
    IN  IF matching = {} THEN {"Other"} ELSE {probeTopic[pre] : pre \in matching}

\* The integer codes ExpectedState collects from the keys of exitCodes.
ScannedCodes(exitCodes) == {Sscanf(k)[1] : k \in {kk \in DOMAIN exitCodes : Sscanf(kk) # None}}

\* ExpectedState with the overlap test placed before the subset test.
ExpectedState_OverlapFirst(probe, exitCodes) ==
    LET expected == IF probe \in DOMAIN probeExpectedExitCodes
                    THEN probeExpectedExitCodes[probe] ELSE {}
        codes == ScannedCodes(exitCodes)
    IN  IF expected = {} THEN "unexpected"
        ELSE IF codes = {} THEN "unexpected"
        ELSE IF \E c \in codes : c \in expected THEN "mixed"
        ELSE IF \A c \in codes : c \in expected THEN "expected"
        ELSE "unexpected"

ExpectedState(probe, exitCodes) ==
    LET expected == IF probe \in DOMAIN probeExpectedExitCodes
                    THEN probeExpectedExitCodes[probe] ELSE {}
        codes == ScannedCodes(exitCodes)
        allInExpected == \A c \in codes : c \in expected
        hasOverlap == \E c \in codes : c \in expected
    IN  IF expected = {} THEN "unexpected"
        ELSE IF codes = {} THEN "unexpected"
        ELSE IF allInExpected THEN "expected"
        ELSE IF hasOverlap THEN "mixed"
        ELSE "unexpected"

ExpectedSuffix(probe, exitCodes) ==
    LET state == ExpectedState(probe, exitCodes)
    IN  CASE state = "expected" -> " (expected)"
          [] state = "mixed" -> " (mixed)"
          [] OTHER -> ""

(***************************************************************************)
(* Accessors and coercions (run.go).                                       *)
(***************************************************************************)
\* row[key] for a Row that may be nil: nil (None) when the key is absent.
Field(row, key) == IF key \in DOMAIN row THEN Some(row[key]) ELSE None

toInt(v) == IF v = None THEN 0 ELSE v[1]

toFloat64(v) == IF v = None THEN 0 ELSE v[1]

getMap(row, key) == IF key \in DOMAIN row THEN row[key] ELSE EmptyMap

getSlice(row, key) == IF key \in DOMAIN row THEN row[key] ELSE <<>>

\* Some arbitrary visiting order of a set (used only where the code sorts
\* afterwards or where the result does not depend on the order).
RECURSIVE SetToSeq(_)
SetToSeq(S) == IF S = {} THEN <<>> ELSE LET e == CHOOSE e \in S : TRUE IN <<e>> \o SetToSeq(S \ {e})

RECURSIVE InsertInt(_, _)
InsertInt(n, s) ==
    IF Len(s) = 0 THEN <<n>>
    ELSE IF n <= Head(s) THEN <<n>> \o s
    ELSE <<Head(s)>> \o InsertInt(n, Tail(s))

\* sort.Ints
RECURSIVE SortInts(_)
SortInts(s) == IF Len(s) = 0 THEN <<>> ELSE InsertInt(Head(s), SortInts(Tail(s)))

RECURSIVE Join(_, _)
Join(parts, sep) ==
    IF Len(parts) = 0 THEN ""
    ELSE IF Len(parts) = 1 THEN parts[1]
    ELSE parts[1] \o sep \o Join(Tail(parts), sep)

(***************************************************************************)
(* Exit-code maps (run.go).                                                *)
(***************************************************************************)
exitCodesDelta(baseEC, currEC) ==
    [c \in DOMAIN baseEC \cup DOMAIN currEC |-> toInt(Field(currEC, c)) - toInt(Field(baseEC, c))]

\* normExitCodes, visiting the keys of ec in the order ord: a later key that
\* scans to the same integer overwrites the earlier one.
RECURSIVE normExitCodes(_, _)
normExitCodes(ec, ord) ==
    IF Len(ord) = 0 THEN EmptyMap
    ELSE LET k == ord[Len(ord)]
             rest == normExitCodes(ec, SubSeq(ord, 1, Len(ord) - 1))
         IN  IF Sscanf(k) # None
             THEN (Sscanf(k)[1] :> toInt(Field(ec, k))) @@ rest
             ELSE rest

\* Every map normExitCodes can return for ec.
NormOutcomes(ec) == {normExitCodes(ec, ord) : ord \in Perms(DOMAIN ec)}

mapsEqual(a, b) ==
    IF Cardinality(DOMAIN a) # Cardinality(DOMAIN b) THEN FALSE
    ELSE \A k \in DOMAIN a : toInt(Field(b, k)) = a[k]

\* probeFailureIsChanged with the negation of the mapsEqual test lost.
probeFailureIsChanged_LostNegation(probe, baseIt, currIt, normBase, normCurr) ==
    IF toInt(Field(baseIt, "count")) # toInt(Field(currIt, "count")) THEN TRUE
    ELSE IF mapsEqual(normBase, normCurr) THEN TRUE
    ELSE ExpectedState(probe, getMap(baseIt, "exit_codes"))
            # ExpectedState(probe, getMap(currIt, "exit_codes"))

\* probeFailureIsChanged for two non-nil items; normBase and normCurr are the
\* maps the two normExitCodes calls returned.
probeFailureIsChanged(probe, baseIt, currIt, normBase, normCurr) ==
    IF toInt(Field(baseIt, "count")) # toInt(Field(currIt, "count")) THEN TRUE
    ELSE IF ~mapsEqual(normBase, normCurr) THEN TRUE
    ELSE ExpectedState(probe, getMap(baseIt, "exit_codes"))
            # ExpectedState(probe, getMap(currIt, "exit_codes"))

statusOrder == [s \in {"new", "resolved", "changed"} |->
                  CASE s = "new" -> 0 [] s = "resolved" -> 1 [] s = "changed" -> 2]

probeSortKey(probe, status) ==
    LET sev == IF ProbeSeverity(probe) \in DOMAIN SeverityOrder
               THEN SeverityOrder[ProbeSeverity(probe)] ELSE 2
        so == IF status \in DOMAIN statusOrder THEN statusOrder[status] ELSE 3
    IN  <<sev, so, probe>>

\* The comparison function handed to sort.Slice.
KeyLess(ki, kj) ==
    IF ki[1] # kj[1] THEN ki[1] < kj[1]
    ELSE IF ki[2] # kj[2] THEN ki[2] < kj[2]
    ELSE StrLess(ki[3], kj[3])

\* sortProbes: the probes of one status list, ordered by sort.Slice.  The
\* probes of a list are distinct map keys, so KeyLess is a strict total order on
\* them and the sorted list is unique whatever order the list was built in:
\* the least probe, then the sorted rest.
RECURSIVE sortProbes(_, _)
sortProbes(probes, status) ==
    IF probes = {} THEN <<>>
    ELSE LET least == CHOOSE p \in probes : \A q \in probes \ {p} :
                          KeyLess(probeSortKey(p, status), probeSortKey(q, status))
         IN  <<least>> \o sortProbes(probes \ {least}, status)

\* ProbeIndex keeping the first item of a probe instead of the last.
ProbeIndex_FirstWins(items) ==
    LET idx == {i \in DOMAIN items : "probe" \in DOMAIN items[i]}
        probes == {items[i].probe : i \in idx}
    IN  [p \in probes |-> items[CHOOSE i \in idx : /\ items[i].probe = p
                                                   /\ \A j \in idx : items[j].probe = p => i <= j]]

\* The index built from an items list: every item that is an object with a
\* string `probe`, the last one winning.
ProbeIndex(items) ==
    LET idx == {i \in DOMAIN items : "probe" \in DOMAIN items[i]}
        probes == {items[i].probe : i \in idx}
    IN  [p \in probes |-> items[CHOOSE i \in idx : /\ items[i].probe = p
                                                   /\ \A j \in idx : items[j].probe = p => j <= i]]

\* The probeFailureEntry values of one status, in the order of `sorted`: a new
\* entry has no baseline item, a resolved entry no current item.
probeEntries(status, sorted, baseProbes, currProbes) ==
    [i \in 1..Len(sorted) |->
        [status |-> status, probe |-> sorted[i],
         baseIt |-> IF status = "new" THEN NilRow ELSE baseProbes[sorted[i]],
         currIt |-> IF status = "resolved" THEN NilRow ELSE currProbes[sorted[i]]]]

\* buildProbeFailureEntries; norms.base[p] and norms.curr[p] are the maps
\* returned by normExitCodes for the probes present on both sides.
buildProbeFailureEntries(basePF, currPF, norms) ==
    LET baseProbes == ProbeIndex(getSlice(basePF, "items"))
        currProbes == ProbeIndex(getSlice(currPF, "items"))
        newProbes == {p \in DOMAIN currProbes : p \notin DOMAIN baseProbes}
        resolvedProbes == {p \in DOMAIN baseProbes : p \notin DOMAIN currProbes}
        changedProbes == {p \in DOMAIN baseProbes :
                            /\ p \in DOMAIN currProbes
                            /\ probeFailureIsChanged(p, baseProbes[p], currProbes[p],
                                                     norms.base[p], norms.curr[p])}
    IN  probeEntries("new", sortProbes(newProbes, "new"), baseProbes, currProbes)
        \o probeEntries("resolved", sortProbes(resolvedProbes, "resolved"), baseProbes, currProbes)
        \o probeEntries("changed", sortProbes(changedProbes, "changed"), baseProbes, currProbes)

\* The functions f on S with f[x] \in F[x] for every x.
RECURSIVE Choices(_, _)
Choices(S, F) ==
    IF S = {} THEN {EmptyMap}
    ELSE LET x == CHOOSE x \in S : TRUE
         IN  {(x :> v) @@ g : v \in F[x], g \in Choices(S \ {x}, F)}

\* The choices of normExitCodes results open to one call of
\* buildProbeFailureEntries.
NormChoices(basePF, currPF) ==
    LET baseProbes == ProbeIndex(getSlice(basePF, "items"))
        currProbes == ProbeIndex(getSlice(currPF, "items"))
        common == DOMAIN baseProbes \cap DOMAIN currProbes
        outB == [p \in common |-> NormOutcomes(getMap(baseProbes[p], "exit_codes"))]
        outC == [p \in common |-> NormOutcomes(getMap(currProbes[p], "exit_codes"))]
    IN  {[base |-> b, curr |-> c] : b \in Choices(common, outB), c \in Choices(common, outC)}

(***************************************************************************)
(* Formatting (run.go).                                                    *)
(***************************************************************************)
Pad2(n) == IF n < 10 THEN "0" \o Itoa(n) ELSE Itoa(n)

Pad4(n) == IF n < 10 THEN "000" \o Itoa(n)
           ELSE IF n < 100 THEN "00" \o Itoa(n)
           ELSE IF n < 1000 THEN "0" \o Itoa(n)
           ELSE Itoa(n)

\* time.UnixMilli(ms).UTC().Format("2006-01-02 15:04:05") for ms >= 0: the
\* proleptic Gregorian date of the day number, then the time of day.
FormatUTC(ms) ==
    LET secs == ms \div 1000
        days == secs \div 86400
        tod == secs % 86400
        z == days + 719468
        era == z \div 146097
        doe == z % 146097
        yoe == (doe - doe \div 1460 + doe \div 36524 - doe \div 146096) \div 365
        doy == doe - (365 * yoe + yoe \div 4 - yoe \div 100)
        mp == (5 * doy + 2) \div 153
        d == doy - (153 * mp + 2) \div 5 + 1
        m == IF mp < 10 THEN mp + 3 ELSE mp - 9
        y == yoe + era * 400 + (IF m <= 2 THEN 1 ELSE 0)
    IN  Pad4(y) \o "-" \o Pad2(m) \o "-" \o Pad2(d) \o " "
        \o Pad2(tod \div 3600) \o ":" \o Pad2((tod % 3600) \div 60) \o ":" \o Pad2(tod % 60)

fmtTsMs(tsMs) ==
    IF tsMs = None THEN "N/A"
    ELSE IF tsMs[1] = 0 THEN "N/A"
    ELSE FormatUTC(tsMs[1])

spanSingleShot == "single-shot"

spanTightBurst == "tight burst"

\* SpanLabel testing the duration before the count.
SpanLabel_DurationFirst(count, durMs) ==
    IF toFloat64(durMs) = 0 THEN spanTightBurst
    ELSE IF count = 1 THEN spanSingleShot
    ELSE "span"

SpanLabel(count, durMs) ==
    IF count = 1 THEN spanSingleShot
    ELSE IF toFloat64(durMs) = 0 THEN spanTightBurst
    ELSE "span"

\* "%.2f" of a rate; failure_rate is carried in hundredths per second.
FmtRate(r) == Itoa(r \div 100) \o "." \o Pad2(r % 100)

SpanFormat(count, durMs, rate, firstTs, lastTs) ==
    LET label == SpanLabel(count, durMs)
        span == fmtTsMs(firstTs) \o " → " \o fmtTsMs(lastTs)
        r == toFloat64(rate)
    IN  IF label = spanSingleShot THEN spanSingleShot
        ELSE IF label = spanTightBurst THEN spanTightBurst
        ELSE IF toFloat64(durMs) >= 1000 /\ r > 0 THEN span \o " (" \o FmtRate(r) \o "/s)"
        ELSE span

\* The integer keys collected by the formatters: one per key that scans, so an
\* integer appears once for every key that denotes it; then sort.Ints.
SortedScannedKeys(m) ==
    LET ks == SetToSeq({k \in DOMAIN m : Sscanf(k) # None})
    IN  SortInts([i \in 1..Len(ks) |-> Sscanf(ks[i])[1]])

formatExitCodes(ec) ==
    IF DOMAIN ec = {} THEN ""
    ELSE LET keys == SortedScannedKeys(ec)
         IN  Join([i \in 1..Len(keys) |->
                     Itoa(keys[i]) \o ":" \o Itoa(toInt(Field(ec, Itoa(keys[i]))))], ",")

formatExitCodesDelta(delta) ==
    LET keys == SortedScannedKeys(delta)
        vals == [i \in 1..Len(keys) |-> toInt(Field(delta, Itoa(keys[i])))]
        kept == SelectSeq([i \in 1..Len(keys) |-> <<keys[i], vals[i]>>], LAMBDA kv : kv[2] # 0)
    IN  Join([i \in 1..Len(kept) |->
                Itoa(kept[i][1]) \o ":" \o (IF kept[i][2] > 0 THEN "+" ELSE "") \o Itoa(kept[i][2])],
             ", ")

formatProbeEntryNew(probe, currIt) ==
    LET c == toInt(Field(currIt, "count"))
        ec == getMap(currIt, "exit_codes")
        spanStr == SpanFormat(c, Field(currIt, "duration_ms"), Field(currIt, "failure_rate"),
                              Field(currIt, "first_ts_ms"), Field(currIt, "last_ts_ms"))
    IN  "  + " \o probe \o " failed " \o Itoa(c) \o "× (" \o spanStr \o "), exit_codes: {"
        \o formatExitCodes(ec) \o "}" \o ExpectedSuffix(probe, ec)

formatProbeEntryResolved(probe, baseIt) ==
    LET c == toInt(Field(baseIt, "count"))
        ec == getMap(baseIt, "exit_codes")
    IN  "  - " \o probe \o " resolved (was " \o Itoa(c) \o "×, exit_codes: {"
        \o formatExitCodes(ec) \o "})" \o ExpectedSuffix(probe, ec)

\* The two Sprintf calls of formatProbeEntryChanged.
changedLine(probe, bc, cc, deltaStr, expSuffix) ==
    IF deltaStr # ""
    THEN "  ~ " \o probe \o " " \o Itoa(bc) \o "×→" \o Itoa(cc) \o "×, exit_codes: "
         \o deltaStr \o expSuffix
    ELSE "  ~ " \o probe \o " " \o Itoa(bc) \o "×→" \o Itoa(cc) \o "×" \o expSuffix

\* formatProbeEntryChanged taking the suffix from the baseline item.
formatProbeEntryChanged_SuffixFromBaseline(probe, baseIt, currIt) ==
    changedLine(probe, toInt(Field(baseIt, "count")), toInt(Field(currIt, "count")),
                formatExitCodesDelta(exitCodesDelta(getMap(baseIt, "exit_codes"),
                                                    getMap(currIt, "exit_codes"))),
                ExpectedSuffix(probe, getMap(baseIt, "exit_codes")))

formatProbeEntryChanged(probe, baseIt, currIt) ==
    changedLine(probe, toInt(Field(baseIt, "count")), toInt(Field(currIt, "count")),
                formatExitCodesDelta(exitCodesDelta(getMap(baseIt, "exit_codes"),
                                                    getMap(currIt, "exit_codes"))),
                ExpectedSuffix(probe, getMap(currIt, "exit_codes")))

(***************************************************************************)
(* Row sequences (ndjson.go).                                              *)
(***************************************************************************)
\* GroupByType: the last row of every non-empty string `type`.
\* GroupByType keeping the first row of a type.
GroupByType_FirstWins(rows) ==
    LET idx == {i \in DOMAIN rows : StringAt(rows[i], "type") # None /\ rows[i].type # ""}
    IN  [t \in {rows[i].type : i \in idx} |->
            rows[CHOOSE i \in idx : rows[i].type = t /\ \A j \in idx : rows[j].type = t => i <= j]]

GroupByType(rows) ==
    LET idx == {i \in DOMAIN rows : StringAt(rows[i], "type") # None /\ rows[i].type # ""}
    IN  [t \in {rows[i].type : i \in idx} |->
            rows[CHOOSE i \in idx : rows[i].type = t /\ \A j \in idx : rows[j].type = t => j <= i]]

\* byType[key]: the zero value (nil Row) when the key is absent.
Lookup(byType, key) == IF key \in DOMAIN byType THEN byType[key] ELSE NilRow

\* A warning row with both a string code and soft_failures yielding both.
CollectWarningCodes_BothBranches(rows) ==
    LET warn == {i \in DOMAIN rows : StringAt(rows[i], "type") = Some("warning")}
    IN  {rows[i].code : i \in {j \in warn : StringAt(rows[j], "code") # None}}
        \cup (IF \E i \in warn : "soft_failures" \in DOMAIN rows[i]
              THEN {"soft_failures"} ELSE {})

CollectWarningCodes(rows) ==
    LET warn == {i \in DOMAIN rows : StringAt(rows[i], "type") = Some("warning")}
    IN  {rows[i].code : i \in {j \in warn : StringAt(rows[j], "code") # None}}
        \cup (IF \E i \in warn : StringAt(rows[i], "code") = None /\ "soft_failures" \in DOMAIN rows[i]
              THEN {"soft_failures"} ELSE {})

(***************************************************************************)
(* Aggregate delta emitters (run.go).  An emitter returns the lines it     *)
(* prints and its boolean result.                                          *)
(***************************************************************************)
Silent == [out |-> <<>>, delta |-> FALSE]

Abs(n) == IF n < 0 THEN 0 - n ELSE n

\* The integer nearest to num/den (num >= 0, den > 0), ties to even: the
\* rounding of "%.1f".
RoundHalfEven(num, den) ==
    LET q == num \div den
        r == num % den
    IN  IF 2 * r < den THEN q
        ELSE IF 2 * r > den THEN q + 1
        ELSE IF q % 2 = 0 THEN q ELSE q + 1

\* "%.1f" of tenths/10 for tenths >= 0.
Fmt1(tenths) == Itoa(tenths \div 10) \o "." \o Itoa(tenths % 10)

units == <<"B", "K", "M", "G", "T">>

\* The loop of fmtBytes at unit j, where the running value is v / div.
RECURSIVE fmtBytesFrom(_, _, _)
fmtBytesFrom(v, j, div) ==
    IF j > Len(units) THEN Fmt1(RoundHalfEven(v * 10, div)) \o "P"
    ELSE IF v \div div < 1024
         THEN IF units[j] = "B" THEN Itoa(v) \o "B"
              ELSE Fmt1(RoundHalfEven(v * 10, div)) \o units[j]
         ELSE fmtBytesFrom(v, j + 1, div * 1024)

fmtBytes(n) == IF n = None THEN "N/A" ELSE fmtBytesFrom(Abs(n[1]), 1, 1)

\* FmtPct reporting a rise from a baseline of 0 as 100 percent.
FmtPct_ZeroBaseAsHundred(delta, bf) ==
    IF bf = 0 THEN "+100.0"
    ELSE (IF (delta < 0) # (bf < 0) THEN "-" ELSE "+")
         \o Fmt1(RoundHalfEven(Abs(delta) * 1000, Abs(bf)))

\* "%+.1f" of delta / bf * 100 (0 when bf = 0).
FmtPct(delta, bf) ==
    IF bf = 0 THEN "+0.0"
    ELSE (IF (delta < 0) # (bf < 0) THEN "-" ELSE "+")
         \o Fmt1(RoundHalfEven(Abs(delta) * 1000, Abs(bf)))

storageFields == <<"home_bytes", "downloads_bytes", "desktop_bytes", "trash_bytes">>

\* strings.TrimSuffix(f, "_bytes")
TrimBytesSuffix(f) ==
    IF Len(f) >= 6 /\ SubSeq(f, Len(f) - 5, Len(f)) = "_bytes" THEN SubSeq(f, 1, Len(f) - 6) ELSE f

emitStorageDelta(baseSum, currSum) ==
    IF baseSum = NilRow \/ currSum = NilRow THEN Silent
    ELSE LET deltas == SelectSeq(storageFields, LAMBDA f :
                          /\ Field(baseSum, f) # None
                          /\ Field(currSum, f) # None
                          /\ toFloat64(Field(currSum, f)) - toFloat64(Field(baseSum, f)) # 0)
             line(f) ==
                 LET bf == toFloat64(Field(baseSum, f))
                     delta == toFloat64(Field(currSum, f)) - bf
                 IN  "  " \o TrimBytesSuffix(f) \o ": " \o fmtBytes(Field(baseSum, f)) \o " → "
                     \o fmtBytes(Field(currSum, f)) \o " (" \o (IF delta >= 0 THEN "+" ELSE "")
                     \o fmtBytes(Some(delta)) \o ", " \o FmtPct(delta, bf) \o "%)"
         IN  IF Len(deltas) = 0 THEN Silent
             ELSE [out |-> <<"## Storage delta">> \o [i \in 1..Len(deltas) |-> line(deltas[i])]
                           \o <<"">>,
                   delta |-> TRUE]

\* The body shared by emitCountDelta and emitHomebrewDelta.
IntFieldLines(fields, base, curr) ==
    LET deltas == SelectSeq(fields, LAMBDA f :
                      toInt(Field(curr, f)) - toInt(Field(base, f)) # 0)
        line(f) ==
            LET b == toInt(Field(base, f))
                c == toInt(Field(curr, f))
            IN  "  " \o f \o ": " \o Itoa(b) \o " → " \o Itoa(c) \o " ("
                \o (IF c - b >= 0 THEN "+" ELSE "") \o Itoa(c - b) \o ")"
    IN  [i \in 1..Len(deltas) |-> line(deltas[i])]

countFields == <<"large_files", "node_modules", "broken_symlinks", "git_repos", "venv_cache">>

emitCountDelta(baseCounts, currCounts) ==
    IF baseCounts = NilRow \/ currCounts = NilRow THEN Silent
    ELSE LET lines == IntFieldLines(countFields, baseCounts, currCounts)
         IN  IF Len(lines) = 0 THEN Silent
             ELSE [out |-> <<"## Count changes">> \o lines \o <<"">>, delta |-> TRUE]

secFields == <<"filevault", "sip", "gatekeeper", "firewall">>

\* The values of the fields read by toBool carry their JSON kind, on which
\* the coercion depends: a boolean, a number or a string.
JBool(b) == [kind |-> "bool", val |-> b]

JNum(n) == [kind |-> "number", val |-> n]

\* toBool without the numeric cases of the type switch.
toBool_BoolOnly(v) ==
    IF v = None THEN FALSE
    ELSE IF v[1].kind = "bool" THEN v[1].val
    ELSE FALSE

toBool(v) ==
    IF v = None THEN FALSE
    ELSE CASE v[1].kind = "bool" -> v[1].val
           [] v[1].kind = "number" -> v[1].val # 0
           [] OTHER -> FALSE

emitSecurityConfigDelta(baseSec, currSec) ==
    IF baseSec = NilRow \/ currSec = NilRow THEN Silent
    ELSE LET changes == SelectSeq(secFields, LAMBDA f :
                           /\ Field(baseSec, f) # None
                           /\ Field(currSec, f) # None
                           /\ toBool(Field(baseSec, f)) # toBool(Field(currSec, f)))
             onOff(b) == IF b THEN "on" ELSE "off"
             line(f) == "  " \o f \o ": " \o onOff(toBool(Field(baseSec, f))) \o " → "
                        \o onOff(toBool(Field(currSec, f)))
         IN  IF Len(changes) = 0 THEN Silent
             ELSE [out |-> <<"## Security config changes">>
                           \o [i \in 1..Len(changes) |-> line(changes[i])] \o <<"">>,
                   delta |-> TRUE]

brewFields == <<"formulae", "casks">>

emitHomebrewDelta(baseBrew, currBrew) ==
    IF baseBrew = NilRow \/ currBrew = NilRow THEN Silent
    ELSE LET lines == IntFieldLines(brewFields, baseBrew, currBrew)
         IN  IF Len(lines) = 0 THEN Silent
             ELSE [out |-> <<"## Homebrew delta">> \o lines \o <<"">>, delta |-> TRUE]

\* sort.Strings of a set of distinct strings.
RECURSIVE SortStrings(_)
SortStrings(S) ==
    IF S = {} THEN <<>>
    ELSE LET least == CHOOSE a \in S : \A b \in S \ {a} : StrLess(a, b)
         IN  <<least>> \o SortStrings(S \ {least})

emitNewWarnings(codes) ==
    IF codes = {} THEN Silent
    ELSE LET sorted == SortStrings(codes)
         IN  [out |-> <<"## New warnings">> \o [i \in 1..Len(sorted) |-> "  - " \o sorted[i]]
                      \o <<"">>,
              delta |-> TRUE]

(***************************************************************************)
(* Probe-failures section and Run (run.go).                                *)
(***************************************************************************)
RECURSIVE IndexOf(_, _, _)
IndexOf(seq, e, i) ==
    IF i > Len(seq) THEN 0 ELSE IF seq[i] = e THEN i ELSE IndexOf(seq, e, i + 1)

\* topicSortKey that never finds the topic in TopicOrder.
topicSortKey_NeverFound(topic) == 99

topicSortKey(topic) ==
    LET i == IndexOf(TopicOrder, topic, 1) IN IF i = 0 THEN 99 ELSE i - 1

TopicLess(a, b) ==
    IF topicSortKey(a) # topicSortKey(b) THEN topicSortKey(a) < topicSortKey(b) ELSE StrLess(a, b)

\* The sort.Slice call on the topic names (distinct map keys).
RECURSIVE sortTopics(_)
sortTopics(S) ==
    IF S = {} THEN <<>>
    ELSE LET least == CHOOSE a \in S : \A b \in S \ {a} : TopicLess(a, b)
         IN  <<least>> \o sortTopics(S \ {least})

formatProbeEntry(e) ==
    CASE e.status = "new" -> formatProbeEntryNew(e.probe, e.currIt)
      [] e.status = "resolved" -> formatProbeEntryResolved(e.probe, e.baseIt)
      [] OTHER -> formatProbeEntryChanged(e.probe, e.baseIt, e.currIt)

RECURSIVE Flatten(_)
Flatten(ss) == IF Len(ss) = 0 THEN <<>> ELSE Head(ss) \o Flatten(Tail(ss))

\* The lines of one topic: a blank line, the heading, one line per entry.
topicSection(t, es) ==
    <<"", "### " \o t>> \o [i \in 1..Len(es) |-> formatProbeEntry(es[i])]

\* The sections of the topics in sorted order.
topicSections(topics, entries, topicOf) ==
    Flatten([i \in 1..Len(topics) |->
                topicSection(topics[i], SelectSeq(entries, LAMBDA e : topicOf[e.probe] = topics[i]))])

\* The part of emitProbeFailuresDelta after the entries are built.
emitProbeEntries(entries, topicOf) ==
    IF Len(entries) = 0
    THEN [out |-> <<"## Probe failures delta", "  No changes detected", "">>, delta |-> FALSE]
    ELSE [out |-> <<"## Probe failures delta">>
                  \o topicSections(sortTopics({topicOf[entries[i].probe] : i \in DOMAIN entries}),
                                   entries, topicOf)
                  \o <<"">>,
          delta |-> TRUE]

\* emitProbeFailuresDelta; topicOf[p] is what ProbeTopic returned for probe p.
emitProbeFailuresDelta(basePF, currPF, norms, topicOf) ==
    emitProbeEntries(buildProbeFailureEntries(basePF, currPF, norms), topicOf)

\* The probes an items list can contribute.
ItemProbes(row) == DOMAIN ProbeIndex(getSlice(row, "items"))

\* The ProbeTopic results open to one call of emitProbeFailuresDelta.
TopicChoices(basePF, currPF) ==
    LET probes == ItemProbes(basePF) \cup ItemProbes(currPF)
    IN  Choices(probes, [p \in probes |-> ProbeTopicOutcomes(p)])

noChanges == "No changes detected between baseline and current."

\* hasDeltas taking the emitter's result instead of or-ing it in.
emit_Overwrite(acc, r) ==
    [out |-> acc.out \o r.out, hasDeltas |-> r.delta]

\* hasDeltas = emitX(w, ...) || hasDeltas: the emitter's lines follow what was
\* written before it.
emit(acc, r) ==
    [out |-> acc.out \o r.out, hasDeltas |-> r.delta \/ acc.hasDeltas]

\* The closing lines of Run.
finish(acc) ==
    [out |-> acc.out \o (IF acc.hasDeltas THEN <<>> ELSE <<noChanges>>),
     hasDeltas |-> acc.hasDeltas]

\* The count emitter called ahead of the storage emitter.
runEmitters_CountsFirst(baseByType, currByType, baseWarnings, currWarnings, norms, topicOf) ==
    emit(emit(emit(emit(emit(emit([out |-> <<>>, hasDeltas |-> FALSE],
        emitCountDelta(Lookup(baseByType, "counts"), Lookup(currByType, "counts"))),
        emitStorageDelta(Lookup(baseByType, "summary"), Lookup(currByType, "summary"))),
        emitSecurityConfigDelta(Lookup(baseByType, "security_config"),
                                Lookup(currByType, "security_config"))),
        emitHomebrewDelta(Lookup(baseByType, "homebrew_summary"),
                          Lookup(currByType, "homebrew_summary"))),
        emitNewWarnings({c \in currWarnings : c \notin baseWarnings})),
        emitProbeFailuresDelta(Lookup(baseByType, "probe_failures_summary"),
                               Lookup(currByType, "probe_failures_summary"), norms, topicOf))

\* The six emitters in the order Run calls them.
runEmitters(baseByType, currByType, baseWarnings, currWarnings, norms, topicOf) ==
    emit(emit(emit(emit(emit(emit([out |-> <<>>, hasDeltas |-> FALSE],
        emitStorageDelta(Lookup(baseByType, "summary"), Lookup(currByType, "summary"))),
        emitCountDelta(Lookup(baseByType, "counts"), Lookup(currByType, "counts"))),
        emitSecurityConfigDelta(Lookup(baseByType, "security_config"),
                                Lookup(currByType, "security_config"))),
        emitHomebrewDelta(Lookup(baseByType, "homebrew_summary"),
                          Lookup(currByType, "homebrew_summary"))),
        emitNewWarnings({c \in currWarnings : c \notin baseWarnings})),
        emitProbeFailuresDelta(Lookup(baseByType, "probe_failures_summary"),
                               Lookup(currByType, "probe_failures_summary"), norms, topicOf))

\* Run: the printed lines and the returned boolean.
Run(baseRows, currRows, norms, topicOf) ==
    finish(runEmitters(GroupByType(baseRows), GroupByType(currRows),
                       CollectWarningCodes(baseRows), CollectWarningCodes(currRows),
                       norms, topicOf))

(***************************************************************************)
(* The `diff` sub-command (cmd/osaudit/main.go).                           *)
(***************************************************************************)
\* ReadNDJSON over the lines of a file; file = None when it cannot be opened.
\* A line is blank, a well-formed JSON object (its Row), malformed, or longer
\* than the scanner's buffer.
RECURSIVE ReadLines_PartialRows(_, _, _)
\* ReadLines handing back the rows decoded before the failing line.
ReadLines_PartialRows(lines, lineNo, rows) ==
    IF lineNo > Len(lines) THEN [err |-> "", rows |-> rows]
    ELSE CASE lines[lineNo].kind = "long" -> [err |-> "read", rows |-> rows]
           [] lines[lineNo].kind = "blank" -> ReadLines_PartialRows(lines, lineNo + 1, rows)
           [] lines[lineNo].kind = "bad" ->
                [err |-> "invalid JSON at line " \o Itoa(lineNo), rows |-> rows]
           [] OTHER -> ReadLines_PartialRows(lines, lineNo + 1, Append(rows, lines[lineNo].row))

RECURSIVE ReadLines(_, _, _)
ReadLines(lines, lineNo, rows) ==
    IF lineNo > Len(lines) THEN [err |-> "", rows |-> rows]
    ELSE CASE lines[lineNo].kind = "long" -> [err |-> "read", rows |-> <<>>]
           [] lines[lineNo].kind = "blank" -> ReadLines(lines, lineNo + 1, rows)
           [] lines[lineNo].kind = "bad" ->
                [err |-> "invalid JSON at line " \o Itoa(lineNo), rows |-> <<>>]
           [] OTHER -> ReadLines(lines, lineNo + 1, Append(rows, lines[lineNo].row))

ReadNDJSON(file) ==
    IF file = None THEN [err |-> "open", rows |-> <<>>] ELSE ReadLines(file[1], 1, <<>>)

\* runDiff: parse is the outcome of fs.Parse ("help", "error" or "ok"),
\* baseline and current are the flag values, fs maps a path to its lines.
runDiff(parse, baseline, current, fs) ==
    LET open(path) == IF path \in DOMAIN fs THEN Some(fs[path]) ELSE None
        baseRead == ReadNDJSON(open(baseline))
        currRead == ReadNDJSON(open(current))
    IN  IF parse = "help" THEN [exitCode |-> 0, stdout |-> <<>>]
        ELSE IF parse = "error" THEN [exitCode |-> 2, stdout |-> <<>>]
        ELSE IF baseline = "" \/ current = "" THEN [exitCode |-> 2, stdout |-> <<>>]
        ELSE IF baseRead.err # "" THEN [exitCode |-> 1, stdout |-> <<>>]
        ELSE IF currRead.err # "" THEN [exitCode |-> 1, stdout |-> <<>>]
        ELSE [exitCode |-> 0,
              stdout |-> <<"Parsed " \o Itoa(Len(baseRead.rows)) \o " baseline rows, "
                           \o Itoa(Len(currRead.rows)) \o " current rows">>]

(***************************************************************************)
(* The command manifest (cmd/osaudit/main.go).  An error is its message,   *)
(* "" for nil; a nil slice is the empty sequence.                          *)
(***************************************************************************)
\* strings.TrimSpace (the space and the line feed are the white space that
\* occurs in the inputs).
RECURSIVE TrimSpace(_)
TrimSpace(s) ==
    IF Len(s) > 0 /\ CharAt(s, 1) \in {" ", "\n"} THEN TrimSpace(SubSeq(s, 2, Len(s)))
    ELSE IF Len(s) > 0 /\ CharAt(s, Len(s)) \in {" ", "\n"}
    THEN TrimSpace(SubSeq(s, 1, Len(s) - 1))
    ELSE s

\* commandIDPattern.MatchString: ^[a-z0-9][a-z0-9-]*$
commandIDPattern(id) ==
    /\ Len(id) >= 1
    /\ \A i \in 1..Len(id) :
          \E j \in 1..Len(Alphabet) :
              /\ CharAt(Alphabet, j) = CharAt(id, i)
              /\ \/ Ord("0") <= j /\ j <= Ord("9")
                 \/ Ord("a") <= j /\ j <= Ord("z")
                 \/ i > 1 /\ j = Ord("-")

validManifestOS == {"mac", "linux", "windows"}

validateManifestOSValues(ref, values) ==
    IF Len(values) < 1 THEN ref \o ": os must contain at least one value"
    ELSE IF \E i \in DOMAIN values : values[i] \notin validManifestOS
    THEN ref \o ": os contains unsupported value"
    ELSE ""

\* What os.Stat finds under the repository root: an executable file, a file
\* without an execute bit, a directory; any other path does not exist.
ExecTargets ==
    ("audit/run.sh" :> "file") @@ ("audit/data.txt" :> "noexec") @@ ("audit" :> "dir")

\* goos is runtime.GOOS.
validateManifestExecPath(ref, execValues, goos) ==
    IF Len(execValues) < 1 THEN ref \o ": exec must contain at least one value"
    ELSE IF TrimSpace(execValues[1]) = "" THEN ref \o ": exec[0] is required"
    ELSE IF HasPrefix(TrimSpace(execValues[1]), "-") THEN ref \o ": exec[0] must not start with '-'"
    ELSE IF TrimSpace(execValues[1]) \notin DOMAIN ExecTargets
    THEN ref \o ": exec[0] target does not exist"
    ELSE IF ExecTargets[TrimSpace(execValues[1])] = "dir"
    THEN ref \o ": exec[0] target is a directory, expected file"
    ELSE IF goos # "windows" /\ ExecTargets[TrimSpace(execValues[1])] = "noexec"
    THEN ref \o ": exec[0] is not executable"
    ELSE ""

\* The error and the ids seen once the command is validated.
validateManifestCommand(cmd, index, seenIDs, goos) ==
    LET ref0 == "command[" \o Itoa(index) \o "]"
        id == TrimSpace(cmd.id)
        ref == ref0 \o " (\"" \o id \o "\")"
        fail(msg) == [err |-> msg, seenIDs |-> seenIDs]
        seen == (id :> index) @@ seenIDs
    IN  IF id = "" THEN fail(ref0 \o ": id is required")
        ELSE IF ~commandIDPattern(id) THEN fail(ref \o ": id must match")
        ELSE IF id \in DOMAIN seenIDs THEN fail(ref \o ": duplicate id")
        ELSE IF TrimSpace(cmd.display) = ""
        THEN [err |-> ref \o ": display is required", seenIDs |-> seen]
        ELSE IF validateManifestOSValues(ref, cmd.os) # ""
        THEN [err |-> validateManifestOSValues(ref, cmd.os), seenIDs |-> seen]
        ELSE [err |-> validateManifestExecPath(ref, cmd.exec, goos), seenIDs |-> seen]

\* The loop of validateManifest from command i (0-based index i - 1) on.
RECURSIVE validateCommands(_, _, _, _)
validateCommands(commands, i, seenIDs, goos) ==
    IF i > Len(commands) THEN ""
    ELSE IF validateManifestCommand(commands[i], i - 1, seenIDs, goos).err # ""
    THEN validateManifestCommand(commands[i], i - 1, seenIDs, goos).err
    ELSE validateCommands(commands, i + 1,
                          validateManifestCommand(commands[i], i - 1, seenIDs, goos).seenIDs, goos)

validateManifest(commands, goos) ==
    IF Len(commands) < 1 THEN "commands must contain at least one entry"
    ELSE validateCommands(commands, 1, EmptyMap, goos)

commandSupportsOS(cmd, detectedOS) == \E i \in DOMAIN cmd.os : cmd.os[i] = detectedOS

\* loadCommands filtering by OS before it validates.
loadCommands_FilterFirst(m, detectedOS, goos) ==
    LET supports(cmd) == commandSupportsOS(cmd, detectedOS)
    IN  CASE m.kind = "missing" -> [err |-> "manifest not found", commands |-> <<>>]
          [] m.kind = "unreadable" -> [err |-> "failed to open manifest", commands |-> <<>>]
          [] m.kind = "malformed" -> [err |-> "failed to parse manifest", commands |-> <<>>]
          [] OTHER ->
               IF validateManifest(SelectSeq(m.commands, supports), goos) # ""
               THEN [err |-> "invalid manifest: "
                             \o validateManifest(SelectSeq(m.commands, supports), goos),
                     commands |-> <<>>]
               ELSE [err |-> "", commands |-> SelectSeq(m.commands, supports)]

\* m is what is found at manifestPath: no file, a file that cannot be opened,
\* text that is not JSON, or the decoded commands.
loadCommands(m, detectedOS, goos) ==
    LET supports(cmd) == commandSupportsOS(cmd, detectedOS)
    IN  CASE m.kind = "missing" -> [err |-> "manifest not found", commands |-> <<>>]
          [] m.kind = "unreadable" -> [err |-> "failed to open manifest", commands |-> <<>>]
          [] m.kind = "malformed" -> [err |-> "failed to parse manifest", commands |-> <<>>]
          [] OTHER ->
               IF validateManifest(m.commands, goos) # ""
               THEN [err |-> "invalid manifest: " \o validateManifest(m.commands, goos),
                     commands |-> <<>>]
               ELSE [err |-> "", commands |-> SelectSeq(m.commands, supports)]

\* parseRunArgs handing back everything after the id.
parseRunArgs_KeepSeparator(a) ==
    IF Len(a) = 0 THEN [id |-> "", passthrough |-> <<>>, err |-> "missing command id for 'run'"]
    ELSE IF Len(a) = 1 THEN [id |-> a[1], passthrough |-> <<>>, err |-> ""]
    ELSE IF a[2] # "--"
    THEN [id |-> "", passthrough |-> <<>>, err |-> "pass-through arguments must be after '--'"]
    ELSE [id |-> a[1], passthrough |-> SubSeq(a, 2, Len(a)), err |-> ""]

parseRunArgs(a) ==
    IF Len(a) = 0 THEN [id |-> "", passthrough |-> <<>>, err |-> "missing command id for 'run'"]
    ELSE IF Len(a) = 1 THEN [id |-> a[1], passthrough |-> <<>>, err |-> ""]
    ELSE IF a[2] # "--"
    THEN [id |-> "", passthrough |-> <<>>, err |-> "pass-through arguments must be after '--'"]
    ELSE [id |-> a[1], passthrough |-> SubSeq(a, 3, Len(a)), err |-> ""]

(***************************************************************************)
(* The interactive menu (cmd/osaudit/main.go).  Standard input is the      *)
(* sequence of its lines still unread, each with its line feed; only the   *)
(* last one may lack it (input that ends without a line feed).             *)
(***************************************************************************)
\* reader.ReadString('\n'): the next line with its line feed; at the end of
\* the input, what is left of it together with the error io.EOF.
ReadString(in) ==
    IF in = <<>> THEN [input |-> "", err |-> "EOF", rest |-> <<>>]
    ELSE IF CharAt(Head(in), Len(Head(in))) = "\n"
    THEN [input |-> Head(in), err |-> "", rest |-> Tail(in)]
    ELSE [input |-> Head(in), err |-> "EOF", rest |-> Tail(in)]

\* strconv.Atoi: an optional sign and then decimal digits only, at least one.
Atoi(s) ==
    LET body == IF Len(s) > 0 /\ Head(s) \in {"+", "-"} THEN Tail(s) ELSE s
    IN  IF Len(body) > 0 /\ \A i \in 1..Len(body) : IsDigit(CharAt(body, i))
        THEN [n |-> IF Head(s) = "-" THEN 0 - ScanNumber(body, 0) ELSE ScanNumber(body, 0),
              err |-> ""]
        ELSE [n |-> 0, err |-> "invalid syntax"]

\* strings.ToLower on the letters of the alphabet.
RECURSIVE ToLower(_)
ToLower(s) ==
    IF Len(s) = 0 THEN ""
    ELSE (IF Ord("A") <= Ord(Head(s)) /\ Ord(Head(s)) <= Ord("Z")
          THEN CharAt(Alphabet, Ord(Head(s)) + (Ord("a") - Ord("A")))
          ELSE Head(s)) \o ToLower(Tail(s))

\* selectCommand: (choice, shouldExit, ok), the input left and the message
\* printed after the prompt.
selectCommand(in, commands) ==
    LET r == ReadString(in)
        exitOption == Len(commands) + 1
        c == Atoi(TrimSpace(r.input))
    IN  IF r.err # ""
        THEN [choice |-> 0, shouldExit |-> FALSE, ok |-> FALSE, rest |-> r.rest,
              out |-> "Input error: " \o r.err]
        ELSE IF c.err # "" \/ c.n < 1 \/ c.n > exitOption
        THEN [choice |-> 0, shouldExit |-> FALSE, ok |-> FALSE, rest |-> r.rest,
              out |-> "Invalid selection. Please choose a listed option."]
        ELSE IF c.n = exitOption
        THEN [choice |-> 0, shouldExit |-> TRUE, ok |-> TRUE, rest |-> r.rest, out |-> ""]
        ELSE [choice |-> c.n, shouldExit |-> FALSE, ok |-> TRUE, rest |-> r.rest, out |-> ""]

\* promptRunAgain: (again, ok), the input left and the message printed.
promptRunAgain(in) ==
    LET r == ReadString(in)
        answer == ToLower(TrimSpace(r.input))
    IN  IF r.err # ""
        THEN [again |-> FALSE, ok |-> FALSE, rest |-> r.rest, out |-> "Input error: " \o r.err]
        ELSE [again |-> answer \in {"y", "yes"}, ok |-> TRUE, rest |-> r.rest, out |-> ""]

(***************************************************************************)
(* State.                                                                  *)
(*   baselineRows, currentRows  the rows of the two snapshots              *)
(*   runs    one record per call of Run so far: the printed lines, the     *)
(*           returned boolean and the maps normExitCodes returned          *)
(*   calls   one record per invocation so far of `osaudit diff` or of one  *)
(*           of the functions the command line is built from               *)
(*   file    the lines of the file ReadNDJSON is given (None: no file)     *)
(*   manifest  the content of cli/commands.json (None: no file)            *)
(*   args    the arguments after `osaudit run`                             *)
(*   stdin   the lines still to be read from standard input                *)
(*   menu    the interactive menu session (None: not started)              *)
(***************************************************************************)
VARIABLES baselineRows, currentRows, runs, calls, file, manifest, args, stdin, menu

\* The state of the command line outside the diff engine.
cliVars == <<file, manifest, args, stdin, menu>>

vars == <<baselineRows, currentRows, runs, calls, cliVars>>

\* No file under read, no manifest, no arguments, no menu session.
CliIdle ==
    /\ file = None
    /\ manifest = None
    /\ args = <<>>
    /\ stdin = <<>>
    /\ menu = None

Item(p, c, ec) == [probe |-> p, count |-> c, exit_codes |-> ec]

PFRow(items) == [type |-> "probe_failures_summary", items |-> items]

\* Probe identifiers of the inputs: two topics with one probe, one topic
\* (Network) with probes of two severities, and an unclassified probe.
\* The last item has no `probe` and is skipped by the differ.
ItemPool ==
    {Item(p, 1, ("1" :> 1)) :
        p \in {"config.fdesetup_status", "network.defaults_firewall_globalstate",
               "network.ifconfig_iface", "network.ifconfig_list", "misc.unknown"}}
    \cup {[probe |-> p, count |-> 2, exit_codes |-> ("1" :> 1) @@ ("255" :> 1),
            duration_ms |-> 2100, failure_rate |-> 95,
            first_ts_ms |-> 1000, last_ts_ms |-> 3100] :
             p \in {"config.fdesetup_status", "network.ifconfig_iface"}}
    \cup {[count |-> 1, exit_codes |-> ("1" :> 1)]}

RowPool ==
    { [type |-> "meta"],
      [type |-> "summary", home_bytes |-> 1024],
      [type |-> "summary", home_bytes |-> 2560],
      [type |-> "counts", large_files |-> 1],
      [type |-> "counts", large_files |-> 2],
      [type |-> "security_config", filevault |-> JBool(TRUE)],
      [type |-> "security_config", filevault |-> JBool(FALSE)],
      [type |-> "homebrew_summary", formulae |-> 1],
      [type |-> "homebrew_summary", formulae |-> 2],
      [type |-> "warning", code |-> "net_timeout"],
      PFRow(<<Item("config.fdesetup_status", 1, ("1" :> 1))>>),
      PFRow(<<Item("config.fdesetup_status", 2, ("1" :> 1) @@ ("255" :> 1))>>) }

CliRowPool ==
    { [type |-> "summary", home_bytes |-> 1024],
      [type |-> "summary", home_bytes |-> 2560],
      PFRow(<<Item("config.fdesetup_status", 1, ("1" :> 1))>>),
      PFRow(<<Item("config.fdesetup_status", 2, ("1" :> 1) @@ ("255" :> 1))>>) }

MaxCodes == 2

MaxCalls == 1

Sides == {"baseline", "current"}

Init ==
    /\ baselineRows = <<>>
    /\ currentRows = <<>>
    /\ runs = <<>>
    /\ calls = <<>>
    /\ CliIdle

\* The snapshots are complete before the engine or the CLI reads them.
Building == runs = <<>> /\ calls = <<>>

\* A collector appends a row to one snapshot.
AddRowFrom(pool) ==
    /\ Building
    /\ Len(baselineRows) + Len(currentRows) < MaxRows
    /\ \E side \in Sides, row \in pool :
          /\ baselineRows' = IF side = "baseline" THEN Append(baselineRows, row) ELSE baselineRows
          /\ currentRows' = IF side = "current" THEN Append(currentRows, row) ELSE currentRows
    /\ UNCHANGED <<runs, calls, cliVars>>

AddRow == AddRowFrom(RowPool)

AddCliRow == AddRowFrom(CliRowPool)

\* The items of the probe_failures_summary row of a snapshot built by AddItem.
ItemsOf(rows) == IF Len(rows) = 0 THEN <<>> ELSE rows[1].items

\* A probe-failure item is appended to the summary row of one snapshot.
AddItem ==
    /\ Building
    /\ Len(ItemsOf(baselineRows)) + Len(ItemsOf(currentRows)) < MaxItems
    /\ \E side \in Sides, item \in ItemPool :
          /\ baselineRows' = IF side = "baseline"
                             THEN <<PFRow(Append(ItemsOf(baselineRows), item))>> ELSE baselineRows
          /\ currentRows' = IF side = "current"
                            THEN <<PFRow(Append(ItemsOf(currentRows), item))>> ELSE currentRows
    /\ UNCHANGED <<runs, calls, cliVars>>

\* An exit code is recorded in the single item of one snapshot.
SetExitCode ==
    /\ Building
    \* exit-code keys: "01" denotes the same code as "1", "x" none
    /\ \E side \in Sides, key \in {"1", "01", "255", "x"}, n \in {0, 1} :
          LET rows == IF side = "baseline" THEN baselineRows ELSE currentRows
              it == rows[1].items[1]
              row == PFRow(<<[it EXCEPT !.exit_codes = (key :> n) @@ @]>>)
          IN  /\ key \notin DOMAIN it.exit_codes
              /\ Cardinality(DOMAIN it.exit_codes) < MaxCodes
              /\ baselineRows' = IF side = "baseline" THEN <<row>> ELSE baselineRows
              /\ currentRows' = IF side = "current" THEN <<row>> ELSE currentRows
    /\ UNCHANGED <<runs, calls, cliVars>>

\* One call of Run on the two snapshots.
CallRun ==
    /\ Len(runs) < MaxRuns
    /\ LET basePF == Lookup(GroupByType(baselineRows), "probe_failures_summary")
           currPF == Lookup(GroupByType(currentRows), "probe_failures_summary")
       IN  \E norms \in NormChoices(basePF, currPF), topicOf \in TopicChoices(basePF, currPF) :
              runs' = Append(runs, [norms |-> norms] @@ Run(baselineRows, currentRows, norms, topicOf))
    /\ UNCHANGED <<baselineRows, currentRows, calls, cliVars>>

\* The files the snapshots were written to, one row per line.
FileSystem ==
    ("old.ndjson" :> [i \in 1..Len(baselineRows) |-> [kind |-> "row", row |-> baselineRows[i]]])
    @@ ("new.ndjson" :> [i \in 1..Len(currentRows) |-> [kind |-> "row", row |-> currentRows[i]]])

Paths == {"", "old.ndjson", "new.ndjson", "missing.ndjson"}

\* One invocation of `osaudit diff`.
CallRunDiff ==
    /\ Len(calls) < MaxCalls
    /\ \E parse \in {"help", "error", "ok"}, baseline \in Paths, current \in Paths :
          LET r == runDiff(parse, baseline, current, FileSystem)
          IN  calls' = Append(calls, [parse |-> parse, baseline |-> baseline, current |-> current,
                                      exitCode |-> r.exitCode, stdout |-> r.stdout])
    /\ UNCHANGED <<baselineRows, currentRows, runs, cliVars>>

Next == AddRow \/ CallRun

Spec == Init /\ [][Next]_vars

\* The probe-failure differ on snapshots whose items vary.
SpecProbe == Init /\ [][AddItem \/ CallRun]_vars

\* The exit-code maps of one probe present in both snapshots.
InitCodes ==
    /\ \E p \in {"config.fdesetup_status", "network.ifconfig_iface"}, cb \in {2}, cc \in {2, 3} :
          /\ baselineRows = <<PFRow(<<Item(p, cb, EmptyMap)>>)>>
          /\ currentRows = <<PFRow(<<Item(p, cc, EmptyMap)>>)>>
    /\ runs = <<>>
    /\ calls = <<>>
    /\ CliIdle

SpecCodes == InitCodes /\ [][SetExitCode \/ CallRun]_vars

\* The command line on snapshots read from files.
SpecCli == Init /\ [][AddCliRow \/ CallRunDiff]_vars

\* Probe identifiers for the classification lookups: the entry of the exact
\* table, prefixes of each severity (the last entry of the prefix table among
\* them), a topic prefix without a severity prefix, and identifiers that match
\* no prefix ("config" lacks the dot).
ClassifyProbes ==
    {"network.socketfilterfw_stealth", "config.fdesetup_status", "execution.ps_aux",
     "network.other", "persistence.cron", "misc.unknown", "config"}

\* A probe-failure item of one of the classified probes is appended to the
\* summary row of one snapshot.
AddProbe ==
    /\ Building
    /\ Len(ItemsOf(baselineRows)) + Len(ItemsOf(currentRows)) < MaxItems
    /\ \E side \in Sides, p \in ClassifyProbes :
          /\ baselineRows' = IF side = "baseline"
                             THEN <<PFRow(Append(ItemsOf(baselineRows), Item(p, 1, ("1" :> 1))))>>
                             ELSE baselineRows
          /\ currentRows' = IF side = "current"
                            THEN <<PFRow(Append(ItemsOf(currentRows), Item(p, 1, ("1" :> 1))))>>
                            ELSE currentRows
    /\ UNCHANGED <<runs, calls, cliVars>>

\* The differ on probes of every classification.
SpecClassify == Init /\ [][AddProbe \/ CallRun]_vars

\* Values of the fields SpanFormat reads: counts around 1, durations around
\* one second, rates in hundredths per second, timestamps in milliseconds.
SpanFieldPool ==
    [count |-> {0, 1, 2, 5}, duration_ms |-> {0, 500, 1000, 2100},
     failure_rate |-> {0, 95, 571}, first_ts_ms |-> {0, 1000}, last_ts_ms |-> {0, 3100}]

\* A probe that is new in the current snapshot, its item with no field but
\* the probe and the exit codes.
InitSpan ==
    /\ baselineRows = <<>>
    /\ currentRows = <<PFRow(<<[probe |-> "network.ifconfig_list", exit_codes |-> ("1" :> 1)]>>)>>
    /\ runs = <<>>
    /\ calls = <<>>
    /\ CliIdle

\* The collector records one more field of the item.
SetSpanField ==
    /\ Building
    /\ \E f \in DOMAIN SpanFieldPool :
          \E v \in SpanFieldPool[f] :
              /\ f \notin DOMAIN currentRows[1].items[1]
              /\ currentRows' = <<PFRow(<<(f :> v) @@ currentRows[1].items[1]>>)>>
    /\ UNCHANGED <<baselineRows, runs, calls, cliVars>>

\* The differ on a new probe whose span fields vary.
SpecSpan == InitSpan /\ [][SetSpanField \/ CallRun]_vars

\* The fields a collector can record in a row of each type, with their values:
\* byte sizes around the unit boundary with a baseline of 0, small counts, and
\* security settings given as booleans, numbers or a string.
FieldValues(t) ==
    CASE t = "summary" -> [home_bytes |-> {0, 1000, 1024, 2560}, trash_bytes |-> {0, 1024}]
      [] t = "counts" -> [large_files |-> {0, 1, 2}, git_repos |-> {0, 1}]
      [] t = "security_config" ->
            [filevault |-> {JBool(TRUE), JBool(FALSE), JNum(1), JNum(0), [kind |-> "string", val |-> "on"]},
             sip |-> {JBool(TRUE), JBool(FALSE)}]
      [] OTHER -> [formulae |-> {0, 1, 2}, casks |-> {0, 1}]

\* Each snapshot has no row or one row, without fields, of one record type.
InitFields ==
    /\ \E t \in {"summary", "counts", "security_config", "homebrew_summary"}, hasBase \in BOOLEAN, hasCurr \in BOOLEAN :
          /\ baselineRows = IF hasBase THEN <<[type |-> t]>> ELSE <<>>
          /\ currentRows = IF hasCurr THEN <<[type |-> t]>> ELSE <<>>
    /\ runs = <<>>
    /\ calls = <<>>
    /\ CliIdle

\* The collector records one more field in the row of one snapshot.
SetRowField ==
    /\ Building
    /\ \E side \in Sides :
          LET rows == IF side = "baseline" THEN baselineRows ELSE currentRows
          IN  /\ rows # <<>>
              /\ \E f \in DOMAIN FieldValues(rows[1].type) :
                    \E v \in FieldValues(rows[1].type)[f] :
                        /\ f \notin DOMAIN rows[1]
                        /\ baselineRows' = IF side = "baseline"
                                           THEN <<(f :> v) @@ rows[1]>> ELSE baselineRows
                        /\ currentRows' = IF side = "current"
                                          THEN <<(f :> v) @@ rows[1]>> ELSE currentRows
    /\ UNCHANGED <<runs, calls, cliVars>>

\* The aggregate emitters on records whose fields vary.
SpecFields == InitFields /\ [][SetRowField \/ CallRun]_vars

\* Rows of a snapshot with warnings: string codes, a code that is not a
\* string, the soft_failures marker, and rows that are not warnings.
WarnRowPool ==
    << [type |-> "warning", code |-> "net_timeout"],
       [type |-> "warning", code |-> "disk_full", soft_failures |-> 1],
       [type |-> "warning", code |-> 7, soft_failures |-> 2],
       [type |-> "warning", code |-> 7],
       [type |-> "meta", code |-> "not_a_warning", soft_failures |-> 1],
       [type |-> 7, code |-> "untyped"] >>

\* A collector appends a row of the pool to one snapshot.
AddWarnRow ==
    /\ Building
    /\ Len(baselineRows) + Len(currentRows) < MaxRows
    /\ \E side \in Sides, k \in DOMAIN WarnRowPool :
          /\ baselineRows' = IF side = "baseline" THEN Append(baselineRows, WarnRowPool[k])
                             ELSE baselineRows
          /\ currentRows' = IF side = "current" THEN Append(currentRows, WarnRowPool[k])
                            ELSE currentRows
    /\ UNCHANGED <<runs, calls, cliVars>>

SpecWarn == Init /\ [][AddWarnRow \/ CallRun]_vars

\* Lines of a file: blank once trimmed, text that is not JSON, a line longer
\* than maxLineSize, and JSON objects: two of one type, one of another type,
\* one whose type is the empty string, one whose type is a number, and the
\* JSON value null (decoded without error into a nil Row, which has no type).
LinePool ==
    << [kind |-> "blank"],
       [kind |-> "bad"],
       [kind |-> "long"],
       [kind |-> "row", row |-> [type |-> "meta", n |-> 1]],
       [kind |-> "row", row |-> [type |-> "meta", n |-> 2]],
       [kind |-> "row", row |-> [type |-> "summary", n |-> 1]],
       [kind |-> "row", row |-> [type |-> "", n |-> 1]],
       [kind |-> "row", row |-> [type |-> 7, n |-> 1]],
       [kind |-> "row", row |-> NilRow] >>

\* The path names an empty file or no file.
InitRead ==
    /\ baselineRows = <<>>
    /\ currentRows = <<>>
    /\ runs = <<>>
    /\ calls = <<>>
    /\ file \in {None, Some(<<>>)}
    /\ manifest = None
    /\ args = <<>>
    /\ stdin = <<>>
    /\ menu = None

\* A line is written to the file before it is read.
AddLine ==
    /\ calls = <<>>
    /\ file # None
    /\ Len(file[1]) < MaxRows
    /\ \E k \in DOMAIN LinePool : file' = Some(Append(file[1], LinePool[k]))
    /\ UNCHANGED <<baselineRows, currentRows, runs, calls, manifest, args, stdin, menu>>

\* One call of ReadNDJSON on the file.
CallReadNDJSON ==
    /\ Len(calls) < MaxCalls
    /\ calls' = Append(calls, ReadNDJSON(file))
    /\ UNCHANGED <<baselineRows, currentRows, runs, cliVars>>

SpecRead == InitRead /\ [][AddLine \/ CallReadNDJSON]_vars

\* A snapshot with one record of every type the engine reads.
SnapshotRows ==
    << [type |-> "meta"],
       [type |-> "summary", home_bytes |-> 1024],
       [type |-> "counts", large_files |-> 1],
       [type |-> "security_config", filevault |-> JBool(TRUE)],
       [type |-> "homebrew_summary", formulae |-> 1],
       PFRow(<<Item("config.fdesetup_status", 1, ("1" :> 1))>>) >>

\* What each record of the snapshot becomes when the audited machine
\* changes: the first one gives way to a warning.
DriftedRows ==
    << [type |-> "warning", code |-> "net_timeout"],
       [type |-> "summary", home_bytes |-> 2560],
       [type |-> "counts", large_files |-> 2],
       [type |-> "security_config", filevault |-> JBool(FALSE)],
       [type |-> "homebrew_summary", formulae |-> 2],
       PFRow(<<Item("config.fdesetup_status", 2, ("1" :> 1) @@ ("255" :> 1))>>) >>

\* The current snapshot starts as a copy of the baseline.
InitOrder ==
    /\ baselineRows = SnapshotRows
    /\ currentRows = SnapshotRows
    /\ runs = <<>>
    /\ calls = <<>>
    /\ CliIdle

\* One record of the current snapshot changes.
Drift ==
    /\ Building
    /\ \E k \in DOMAIN currentRows :
          /\ currentRows[k] = SnapshotRows[k]
          /\ currentRows' = [currentRows EXCEPT ![k] = DriftedRows[k]]
    /\ UNCHANGED <<baselineRows, runs, calls, cliVars>>

SpecOrder == InitOrder /\ [][Drift \/ CallRun]_vars

\* What cli/commands.json holds: nothing usable, or up to MaxCommands commands.
\* The commands are two valid ones for different systems, one whose id
\* repeats the first once trimmed, and one for each way to fail validation.
InitLoad ==
    LET ok(id, os) == [id |-> id, os |-> os, display |-> "Run", exec |-> <<"audit/run.sh">>]
        on(exec) == [id |-> "d", os |-> <<"linux">>, display |-> "Run", exec |-> exec]
        CommandPool ==
            { ok("a", <<"mac", "linux">>), ok("b", <<"linux", "windows">>), ok(" a", <<"linux">>),
              ok("  ", <<"mac">>), ok("A-1", <<"mac">>), ok("c", <<>>),
              ok("c", <<"linux", "solaris">>),
              [id |-> "c", os |-> <<"mac">>, display |-> " ", exec |-> <<"audit/run.sh">>],
              on(<<>>), on(<<" ">>), on(<<"-rf">>), on(<<"audit/missing.sh">>),
              on(<<"audit">>), on(<<"audit/data.txt", "--fast">>) }
    IN  /\ baselineRows = <<>>
        /\ currentRows = <<>>
        /\ runs = <<>>
        /\ calls = <<>>
        /\ file = None
        /\ manifest \in {[kind |-> "missing"], [kind |-> "unreadable"], [kind |-> "malformed"]}
                        \cup {[kind |-> "json", commands |-> cs] :
                                 cs \in UNION {[1..n -> CommandPool] : n \in 0..MaxCommands}}
        /\ args = <<>>
        /\ stdin = <<>>
        /\ menu = None

\* One call of loadCommands on a system that detectOS names detectedOS.
CallLoadCommands ==
    /\ calls = <<>>
    /\ \E detectedOS \in validManifestOS :
          LET goos == IF detectedOS = "mac" THEN "darwin" ELSE detectedOS
          IN  calls' = <<[detectedOS |-> detectedOS, goos |-> goos]
                         @@ loadCommands(manifest, detectedOS, goos)>>
    /\ UNCHANGED <<baselineRows, currentRows, runs, cliVars>>

SpecLoad == InitLoad /\ [][CallLoadCommands]_vars

\* The arguments after `osaudit run`: up to MaxItems words.
InitArgs ==
    /\ baselineRows = <<>>
    /\ currentRows = <<>>
    /\ runs = <<>>
    /\ calls = <<>>
    /\ file = None
    /\ manifest = None
    /\ args \in UNION {[1..n -> {"full", "--", "-x", ""}] : n \in 0..MaxItems}
    /\ stdin = <<>>
    /\ menu = None

\* One call of parseRunArgs on the arguments.
CallParseRunArgs ==
    /\ calls = <<>>
    /\ calls' = <<parseRunArgs(args)>>
    /\ UNCHANGED <<baselineRows, currentRows, runs, cliVars>>

SpecArgs == InitArgs /\ [][CallParseRunArgs]_vars

\* runMenu is entered with the commands of the detected OS (at least one) and
\* whatever standard input holds.
InitMenu ==
    /\ baselineRows = <<>>
    /\ currentRows = <<>>
    /\ runs = <<>>
    /\ calls = <<>>
    /\ file = None
    /\ manifest = None
    /\ args = <<>>
    /\ \E lines \in UNION {[1..n -> {"1\n", " 2 \n", "3\n", "x\n", "y\n", "YES\n", "n\n"}] :
                               n \in 0..MaxItems},
          last \in {<<>>, <<"1">>, <<"y">>} :
          stdin = lines \o last
    /\ \E n \in 1..MaxCommands :
          menu = [commands |-> [i \in 1..n |-> [id |-> "c" \o Itoa(i),
                                                display |-> "Command " \o Itoa(i)]],
                  pc |-> "select", ran |-> <<>>, out |-> ""]

\* A pass of the loop of runMenu opens: selectCommand lists the commands and
\* prompts for a selection.
ShowMenu ==
    /\ menu.pc = "select"
    /\ menu' = [menu EXCEPT !.pc = "prompt", !.out = "Select option: "]
    /\ UNCHANGED <<baselineRows, currentRows, runs, calls, file, manifest, args, stdin>>

\* The read of selectCommand and what runMenu does with its result:
\* `continue`, the exit, or runAuditCommand on the selected command.  The
\* child process shares standard input (cmd.Stdin = os.Stdin) and may read
\* lines the reader has not buffered.
SelectStep ==
    /\ menu.pc = "prompt"
    /\ \E r \in {selectCommand(stdin, menu.commands)} :
           IF ~r.ok
           THEN /\ menu' = [menu EXCEPT !.pc = "select", !.out = r.out]
                /\ stdin' = r.rest
           ELSE IF r.shouldExit
           THEN /\ menu' = [menu EXCEPT !.pc = "exited", !.out = "Exiting."]
                /\ stdin' = r.rest
           ELSE \E k \in 0..Len(r.rest), failed \in BOOLEAN :
                    \E j \in 0..(Len(r.rest) - k) :
                        /\ stdin' = SubSeq(r.rest, 1, k) \o SubSeq(r.rest, k + j + 1, Len(r.rest))
                        /\ menu' = [menu EXCEPT
                                      !.pc = "again",
                                      !.ran = Append(@, menu.commands[r.choice].id),
                                      !.out = IF failed THEN "Command failed (exit 1)"
                                              ELSE "Running: " \o menu.commands[r.choice].display]
    /\ UNCHANGED <<baselineRows, currentRows, runs, calls, file, manifest, args>>

\* The rest of the pass: promptRunAgain, then the exit or the next pass.
RunAgainStep ==
    /\ menu.pc = "again"
    /\ \E r \in {promptRunAgain(stdin)} :
           /\ stdin' = r.rest
           /\ menu' = IF ~r.ok \/ ~r.again
                      THEN [menu EXCEPT !.pc = "exited", !.out = "Exiting."]
                      ELSE [menu EXCEPT !.pc = "select", !.out = ""]
    /\ UNCHANGED <<baselineRows, currentRows, runs, calls, file, manifest, args>>

\* The menu as a running process: a pass that can be made is made (a read
\* returns at once when a line, or the end of the input, is there).
SpecMenu ==
    /\ InitMenu
    /\ [][ShowMenu \/ SelectStep \/ RunAgainStep]_vars
    /\ WF_vars(ShowMenu)
    /\ WF_vars(SelectStep)
    /\ WF_vars(RunAgainStep)

\* The rows of a file that reads without error, grouped by type.
CallGroupByType ==
    /\ Len(calls) < MaxCalls
    /\ ReadNDJSON(file).err = ""
    /\ calls' = Append(calls, [rows |-> ReadNDJSON(file).rows,
                               byType |-> GroupByType(ReadNDJSON(file).rows)])
    /\ UNCHANGED <<baselineRows, currentRows, runs, cliVars>>

SpecGroup == InitRead /\ [][AddLine \/ CallGroupByType]_vars

(***************************************************************************)
(* Reading a report back: the probe-failures section of the printed lines. *)
(***************************************************************************)
pfHeader == "## Probe failures delta"

\* The lines after the section header (the header is printed once per run).
PFSection(out) == SubSeq(out, IndexOf(out, pfHeader, 1) + 1, Len(out))

IsTopicLine(line) == HasPrefix(line, "### ")

TopicOfLine(line) == SubSeq(line, 5, Len(line))

Marks == {"+", "-", "~"}

IsEntryLine(line) == \E m \in Marks : HasPrefix(line, "  " \o m \o " ")

MarkOf(line) == CharAt(line, 3)

StatusOfMark(m) == CASE m = "+" -> "new" [] m = "-" -> "resolved" [] OTHER -> "changed"

\* The entry line names probe p.
LineNames(line, p) == \E m \in Marks : HasPrefix(line, "  " \o m \o " " \o p \o " ")

BaseItems == getSlice(Lookup(GroupByType(baselineRows), "probe_failures_summary"), "items")

CurrItems == getSlice(Lookup(GroupByType(currentRows), "probe_failures_summary"), "items")

ProbesIn(items) == {items[i].probe : i \in {j \in DOMAIN items : "probe" \in DOMAIN items[j]}}

\* The last item of the list that carries probe p.
LastItem(items, p) ==
    LET idx == {i \in DOMAIN items : "probe" \in DOMAIN items[i] /\ items[i].probe = p}
    IN  items[CHOOSE i \in idx : \A j \in idx : j <= i]

CommonProbes == ProbesIn(BaseItems) \cap ProbesIn(CurrItems)

\* The entry lines of a section that carry mark m and name probe p.
LinesFor(sec, m, p) == {i \in DOMAIN sec : HasPrefix(sec[i], "  " \o m \o " " \o p \o " ")}

(***************************************************************************)
(* C1: a probe present in both snapshots with equal count, equal           *)
(* normalized exit_codes maps and equal ExpectedState is named by no line  *)
(* of the probe-failures section.                                          *)
(***************************************************************************)
Unchanged(r, p) ==
    LET b == LastItem(BaseItems, p)
        c == LastItem(CurrItems, p)
    IN  /\ toInt(Field(b, "count")) = toInt(Field(c, "count"))
        /\ r.norms.base[p] = r.norms.curr[p]
        /\ ExpectedState(p, getMap(b, "exit_codes")) = ExpectedState(p, getMap(c, "exit_codes"))

C1_NoOpNotMentioned ==
    \A i \in DOMAIN runs :
        LET sec == PFSection(runs[i].out)
        IN  \A p \in CommonProbes :
                Unchanged(runs[i], p) => \A k \in DOMAIN sec : ~LineNames(sec[k], p)

\* A run with an unchanged probe next to a reported one.
C1_Witness ==
    \E i \in DOMAIN runs : runs[i].hasDeltas /\ \E p \in CommonProbes : Unchanged(runs[i], p)

(***************************************************************************)
(* C2: Run returns true exactly when one of the six emitters reported a    *)
(* delta and prints the closing "No changes detected between baseline and  *)
(* current." line exactly when it returns false; with no probe entry the   *)
(* probe section is its header followed by "No changes detected" and       *)
(* contributes no delta.                                                   *)
(***************************************************************************)
EmitterDeltas(r) ==
    LET bt == GroupByType(baselineRows)
        ct == GroupByType(currentRows)
        basePF == Lookup(bt, "probe_failures_summary")
        currPF == Lookup(ct, "probe_failures_summary")
    IN  << emitStorageDelta(Lookup(bt, "summary"), Lookup(ct, "summary")).delta,
           emitCountDelta(Lookup(bt, "counts"), Lookup(ct, "counts")).delta,
           emitSecurityConfigDelta(Lookup(bt, "security_config"), Lookup(ct, "security_config")).delta,
           emitHomebrewDelta(Lookup(bt, "homebrew_summary"), Lookup(ct, "homebrew_summary")).delta,
           emitNewWarnings(CollectWarningCodes(currentRows) \ CollectWarningCodes(baselineRows)).delta,
           Len(buildProbeFailureEntries(basePF, currPF, r.norms)) > 0 >>

NoProbeEntries(r) ==
    Len(buildProbeFailureEntries(Lookup(GroupByType(baselineRows), "probe_failures_summary"),
                                 Lookup(GroupByType(currentRows), "probe_failures_summary"),
                                 r.norms)) = 0

C2_DeltaFlag ==
    \A i \in DOMAIN runs :
        LET r == runs[i]
            d == EmitterDeltas(r)
        IN  /\ r.hasDeltas <=> \E k \in DOMAIN d : d[k]
            /\ (\E k \in DOMAIN r.out : r.out[k] = noChanges) <=> ~r.hasDeltas
            /\ NoProbeEntries(r) =>
                  LET sec == PFSection(r.out)
                  IN  /\ sec[1] = "  No changes detected"
                      /\ \A k \in DOMAIN sec : ~IsEntryLine(sec[k])
                      /\ r.hasDeltas <=> \E k \in 1..5 : d[k]

\* A run in which another emitter reports a delta while the probe section
\* prints "No changes detected".
C2_Witness ==
    \E i \in DOMAIN runs :
        /\ runs[i].hasDeltas
        /\ NoProbeEntries(runs[i])
        /\ PFSection(runs[i].out)[1] = "  No changes detected"

(***************************************************************************)
(* C3: `osaudit diff`, when both files are read, exits with 0 if the       *)
(* engine detects no change between them and with a non-zero code if it    *)
(* detects a change.                                                       *)
(***************************************************************************)
BothRead(c) ==
    /\ c.parse = "ok"
    /\ c.baseline \in DOMAIN FileSystem
    /\ c.current \in DOMAIN FileSystem

\* The results Run can return on the rows of two files.
RunOutcomes(baseRows, currRows) ==
    LET basePF == Lookup(GroupByType(baseRows), "probe_failures_summary")
        currPF == Lookup(GroupByType(currRows), "probe_failures_summary")
    IN  {Run(baseRows, currRows, n, t).hasDeltas :
            n \in NormChoices(basePF, currPF), t \in TopicChoices(basePF, currPF)}

RowsOfFile(path) == IF path = "old.ndjson" THEN baselineRows ELSE currentRows

C3_ExitCodeReflectsChange ==
    \A i \in DOMAIN calls :
        BothRead(calls[i]) =>
            LET outcomes == RunOutcomes(RowsOfFile(calls[i].baseline), RowsOfFile(calls[i].current))
            IN  /\ calls[i].exitCode = 0 => FALSE \in outcomes
                /\ calls[i].exitCode # 0 => TRUE \in outcomes

(***************************************************************************)
(* C4: for fixed baseline and current rows every call of Run prints the    *)
(* same lines and returns the same boolean.                                *)
(***************************************************************************)
C4_Deterministic ==
    \A i, j \in DOMAIN runs :
        runs[i].out = runs[j].out /\ runs[i].hasDeltas = runs[j].hasDeltas

(***************************************************************************)
(* C5: with E the expected set of the probe and C the set of integers the  *)
(* keys of an exit_codes map with positive counts denote, ExpectedState is *)
(* expected when C is a non-empty subset of E, mixed when C meets E without*)
(* being contained in it, unexpected when C is empty or disjoint from E;   *)
(* a probe without an entry in the table is always unexpected.             *)
(***************************************************************************)
AllItems == Range(BaseItems) \cup Range(CurrItems)

Classified(it) ==
    LET ec == getMap(it, "exit_codes")
        C == {Sscanf(k)[1] : k \in {kk \in DOMAIN ec : Sscanf(kk) # None}}
        state == ExpectedState(it.probe, ec)
    IN  IF it.probe \notin DOMAIN probeExpectedExitCodes THEN state = "unexpected"
        ELSE LET E == probeExpectedExitCodes[it.probe]
             IN  /\ (C # {} /\ C \subseteq E) => state = "expected"
                 /\ (C \cap E # {} /\ ~(C \subseteq E)) => state = "mixed"
                 /\ (C = {} \/ C \cap E = {}) => state = "unexpected"

C5_ExpectedStateBySets ==
    \A it \in AllItems :
        (\A k \in DOMAIN getMap(it, "exit_codes") : it.exit_codes[k] > 0) => Classified(it)

\* A run that printed a changed line with the ` (mixed)` suffix for an item
\* whose codes all have positive counts.
C5_Witness ==
    /\ Len(runs) > 0
    /\ \E it \in Range(CurrItems) :
          /\ DOMAIN it.exit_codes # {}
          /\ \A k \in DOMAIN it.exit_codes : it.exit_codes[k] > 0
          /\ ExpectedState(it.probe, it.exit_codes) = "mixed"
          /\ \E k \in DOMAIN runs[1].out :
                LET line == runs[1].out[k]
                IN  /\ LineNames(line, it.probe)
                    /\ SubSeq(line, Len(line) - 7, Len(line)) = " (mixed)"

(***************************************************************************)
(* C6: adding to an exit_codes map a key whose count is 0 never changes    *)
(* the result of ExpectedState.                                            *)
(***************************************************************************)
Without(m, k) == [x \in DOMAIN m \ {k} |-> m[x]]

C6_ZeroCountIgnored ==
    \A it \in AllItems : \A k \in DOMAIN it.exit_codes :
        it.exit_codes[k] = 0 =>
            ExpectedState(it.probe, it.exit_codes) = ExpectedState(it.probe, Without(it.exit_codes, k))

(***************************************************************************)
(* C7: a probe present in both snapshots with equal count whose two        *)
(* exit_codes maps give every integer code the same count, an absent code  *)
(* counting as 0, is not reported as changed.                              *)
(***************************************************************************)
CountOf(m, c) == IF c \in DOMAIN m THEN m[c] ELSE 0

SameDistribution(r, p) ==
    /\ toInt(Field(LastItem(BaseItems, p), "count")) = toInt(Field(LastItem(CurrItems, p), "count"))
    /\ \A c \in DOMAIN r.norms.base[p] \cup DOMAIN r.norms.curr[p] :
          CountOf(r.norms.base[p], c) = CountOf(r.norms.curr[p], c)

C7_AbsentCodeIsZero ==
    \A i \in DOMAIN runs : \A p \in CommonProbes :
        SameDistribution(runs[i], p) => LinesFor(PFSection(runs[i].out), "~", p) = {}

(***************************************************************************)
(* C8: the section has exactly one `+` line for each probe in current but  *)
(* not in baseline, one `-` line for each probe in baseline but not in     *)
(* current, one `~` line for each probe in both for which                  *)
(* probeFailureIsChanged holds, and no other entry line; a probe that      *)
(* occurs twice in a list is represented by its last item.                 *)
(***************************************************************************)
ExpectedLine(r, m, p) ==
    CASE m = "+" -> IF p \in ProbesIn(CurrItems) \ ProbesIn(BaseItems)
                    THEN {formatProbeEntryNew(p, LastItem(CurrItems, p))} ELSE {}
      [] m = "-" -> IF p \in ProbesIn(BaseItems) \ ProbesIn(CurrItems)
                    THEN {formatProbeEntryResolved(p, LastItem(BaseItems, p))} ELSE {}
      [] OTHER -> IF /\ p \in CommonProbes
                     /\ probeFailureIsChanged(p, LastItem(BaseItems, p), LastItem(CurrItems, p),
                                              r.norms.base[p], r.norms.curr[p])
                  THEN {formatProbeEntryChanged(p, LastItem(BaseItems, p), LastItem(CurrItems, p))}
                  ELSE {}

C8_OneEntryPerProbe ==
    \A i \in DOMAIN runs :
        LET sec == PFSection(runs[i].out)
            all == ProbesIn(BaseItems) \cup ProbesIn(CurrItems)
        IN  /\ \A p \in all, m \in Marks :
                  LET found == LinesFor(sec, m, p)
                      wanted == ExpectedLine(runs[i], m, p)
                  IN  /\ Cardinality(found) = Cardinality(wanted)
                      /\ \A k \in found : sec[k] \in wanted
            /\ \A p \in all : Cardinality(UNION {LinesFor(sec, m, p) : m \in Marks}) <= 1
            /\ \A k \in DOMAIN sec : IsEntryLine(sec[k]) => \E p \in all : LineNames(sec[k], p)

\* A run on a current list that carries one probe twice with different items
\* and has a line for that probe, next to a resolved probe.
C8_Witness ==
    \E i \in DOMAIN runs :
        /\ \E a, b \in DOMAIN CurrItems :
              /\ a < b
              /\ "probe" \in DOMAIN CurrItems[a] /\ "probe" \in DOMAIN CurrItems[b]
              /\ CurrItems[a].probe = CurrItems[b].probe
              /\ CurrItems[a] # CurrItems[b]
              /\ \E m \in Marks : LinesFor(PFSection(runs[i].out), m, CurrItems[a].probe) # {}
        /\ \E p \in ProbesIn(BaseItems) : LinesFor(PFSection(runs[i].out), "-", p) # {}

(***************************************************************************)
(* C9: within every topic of the probe-failures section the lines are in   *)
(* ascending order of (severity rank, status rank, probe identifier).      *)
(***************************************************************************)
ProbeOfLine(line) ==
    CHOOSE p \in ProbesIn(BaseItems) \cup ProbesIn(CurrItems) : LineNames(line, p)

KeyOfLine(line) == probeSortKey(ProbeOfLine(line), StatusOfMark(MarkOf(line)))

C9_SortedWithinTopic ==
    \A i \in DOMAIN runs :
        LET sec == PFSection(runs[i].out)
        IN  \A k \in DOMAIN sec :
                (k + 1 \in DOMAIN sec /\ IsEntryLine(sec[k]) /\ IsEntryLine(sec[k + 1]))
                    => KeyLess(KeyOfLine(sec[k]), KeyOfLine(sec[k + 1]))

(***************************************************************************)
(* C10: every entry line stands under the `###` header of the topic of its *)
(* probe, a topic header is printed at most once and only with an entry    *)
(* below it, and the headers follow the order Security, Network, Identity, *)
(* Storage, Execution, Persistence, Other.                                 *)
(***************************************************************************)
\* The index of the nearest topic header above line k (0 if none).
HeaderAbove(sec, k) ==
    LET hs == {h \in 1..k : IsTopicLine(sec[h])}
    IN  IF hs = {} THEN 0 ELSE CHOOSE h \in hs : \A g \in hs : g <= h

C10_TopicGrouping ==
    \A i \in DOMAIN runs :
        LET sec == PFSection(runs[i].out)
            heads == {k \in DOMAIN sec : IsTopicLine(sec[k])}
        IN  /\ \A k \in DOMAIN sec :
                  IsEntryLine(sec[k]) =>
                      /\ HeaderAbove(sec, k) # 0
                      /\ ProbeTopicOutcomes(ProbeOfLine(sec[k]))
                            = {TopicOfLine(sec[HeaderAbove(sec, k)])}
            /\ \A h \in heads : h + 1 \in DOMAIN sec /\ IsEntryLine(sec[h + 1])
            /\ \A g, h \in heads :
                  g < h => IndexOf(TopicOrder, TopicOfLine(sec[g]), 1)
                              < IndexOf(TopicOrder, TopicOfLine(sec[h]), 1)
            /\ \A h \in heads : IndexOf(TopicOrder, TopicOfLine(sec[h]), 1) # 0

\* A run whose section has three topics, the unclassified one among them.
C10_Witness ==
    \E i \in DOMAIN runs :
        LET sec == PFSection(runs[i].out)
        IN  /\ Cardinality({k \in DOMAIN sec : IsTopicLine(sec[k])}) >= 3
            /\ \E k \in DOMAIN sec : sec[k] = "### Other"

(***************************************************************************)
(* C11: ProbeSeverity(probe) is the exact table's severity when probe is   *)
(* in that table; otherwise the severity of the first entry, in declared   *)
(* order, of the prefix table whose prefix is a prefix of probe; otherwise *)
(* `low`.  It is always one of high, medium, low.                          *)
(***************************************************************************)
StateProbes == ProbesIn(BaseItems) \cup ProbesIn(CurrItems)

PrefixMatches(p) ==
    {i \in DOMAIN probeSeverityPrefix : HasPrefix(p, probeSeverityPrefix[i].prefix)}

SeverityRule(p, sev) ==
    /\ sev \in {"high", "medium", "low"}
    /\ p \in DOMAIN probeSeverityExact => sev = probeSeverityExact[p]
    /\ (p \notin DOMAIN probeSeverityExact /\ PrefixMatches(p) # {}) =>
          \E i \in PrefixMatches(p) :
              /\ \A j \in PrefixMatches(p) : i <= j
              /\ sev = probeSeverityPrefix[i].sev
    /\ (p \notin DOMAIN probeSeverityExact /\ PrefixMatches(p) = {}) => sev = "low"

C11_SeverityPrecedence ==
    \A i \in DOMAIN runs : \A p \in StateProbes : SeverityRule(p, ProbeSeverity(p))

\* A run over the probe of the exact table (which a prefix entry matches as
\* well), a probe matched by the last prefix entry and a probe matched by none.
C11_Witness ==
    /\ runs # <<>>
    /\ \E p \in StateProbes : p \in DOMAIN probeSeverityExact /\ PrefixMatches(p) # {}
    /\ \E p \in StateProbes : PrefixMatches(p) = {Len(probeSeverityPrefix)}
    /\ \E p \in StateProbes : p \notin DOMAIN probeSeverityExact /\ PrefixMatches(p) = {}

(***************************************************************************)
(* C12: ProbeTopic(probe) is the topic of the first prefix, in declared    *)
(* order, that is a prefix of probe, and `Other` when none is; the result  *)
(* is the same for every order in which the prefix table is visited, and   *)
(* it is the heading every line of the probe stands under.                 *)
(***************************************************************************)
DeclaredTopic(p) ==
    LET m == {i \in DOMAIN probeTopicDeclared : HasPrefix(p, probeTopicDeclared[i])}
    IN  IF m = {} THEN "Other"
        ELSE probeTopic[probeTopicDeclared[CHOOSE i \in m : \A j \in m : i <= j]]

\* Every order in which `range probeTopic` can visit the table.
TopicOrders == Perms(DOMAIN probeTopic)

\* What ProbeTopic returns for a probe over all the visiting orders.
TopicResults == [p \in ClassifyProbes |-> {ProbeTopic(p, ord) : ord \in TopicOrders}]

C12_TopicFirstDeclared ==
    \A i \in DOMAIN runs :
        LET sec == PFSection(runs[i].out)
        IN  /\ \A p \in StateProbes :
                  /\ TopicResults[p] = {DeclaredTopic(p)}
                  /\ ProbeTopicOutcomes(p) = TopicResults[p]
            /\ \A k \in DOMAIN sec :
                  IsEntryLine(sec[k]) =>
                      \E p \in StateProbes :
                          /\ LineNames(sec[k], p)
                          /\ HeaderAbove(sec, k) # 0
                          /\ TopicOfLine(sec[HeaderAbove(sec, k)]) = DeclaredTopic(p)

\* A run that prints a probe under each of two table topics and one under
\* `Other` whose identifier is a proper prefix of a table key.
C12_Witness ==
    \E i \in DOMAIN runs :
        LET sec == PFSection(runs[i].out)
        IN  /\ \E k \in DOMAIN sec : sec[k] = "### Other"
            /\ \E k \in DOMAIN sec : LineNames(sec[k], "config")
            /\ Cardinality({k \in DOMAIN sec : IsTopicLine(sec[k])}) >= 3

(***************************************************************************)
(* C13: on the line of a new probe the span is `single-shot` whenever      *)
(* count = 1, whatever duration_ms is; it is `tight burst` whenever        *)
(* count > 1 and duration_ms = 0; and a rate suffix ` (<rate>/s)` appears  *)
(* only when duration_ms >= 1000 and failure_rate > 0, never next to       *)
(* `single-shot` or `tight burst`.                                         *)
(***************************************************************************)
RECURSIVE ContainsFrom(_, _, _)
ContainsFrom(s, sub, i) ==
    IF i + Len(sub) - 1 > Len(s) THEN FALSE
    ELSE IF SubSeq(s, i, i + Len(sub) - 1) = sub THEN TRUE
    ELSE ContainsFrom(s, sub, i + 1)

Contains(s, sub) == ContainsFrom(s, sub, 1)

\* The lines of a report that announce probe p as new.
NewLines(out, p) == {out[k] : k \in LinesFor(out, "+", p)}

\* The item of the new probe.
NewItem(p) == LastItem(CurrItems, p)

SpanRule(line, p, c, d, r) ==
    /\ c = 1 => HasPrefix(line, "  + " \o p \o " failed 1× (single-shot), ")
    /\ (c > 1 /\ d = 0) =>
          HasPrefix(line, "  + " \o p \o " failed " \o Itoa(c) \o "× (tight burst), ")
    /\ Contains(line, "/s)") =>
          /\ d >= 1000 /\ r > 0
          /\ ~Contains(line, "single-shot") /\ ~Contains(line, "tight burst")

C13_SpanBoundary ==
    \A i \in DOMAIN runs :
        \A p \in ProbesIn(CurrItems) \ ProbesIn(BaseItems) :
            /\ Cardinality(NewLines(runs[i].out, p)) = 1
            /\ \A line \in NewLines(runs[i].out, p) :
                  SpanRule(line, p, toInt(Field(NewItem(p), "count")),
                           toFloat64(Field(NewItem(p), "duration_ms")),
                           toFloat64(Field(NewItem(p), "failure_rate")))

\* A run on a single failure that lasted over a second at a positive rate.
C13_Witness ==
    /\ runs # <<>>
    /\ \E p \in ProbesIn(CurrItems) \ ProbesIn(BaseItems) :
          /\ Field(NewItem(p), "count") = Some(1)
          /\ Field(NewItem(p), "duration_ms") = Some(2100)
          /\ Field(NewItem(p), "failure_rate") = Some(95)

(***************************************************************************)
(* C14: the span of a new-probe line is `tight burst` exactly when         *)
(* count > 1 and duration_ms = 0; for every other count than 1 without     *)
(* both conditions (count = 0 or absent included) the span is              *)
(* `<first_ts> → <last_ts>`, a timestamp of 0 rendered as `N/A`.           *)
(***************************************************************************)
TsText(ts) == IF toFloat64(ts) = 0 THEN "N/A" ELSE FormatUTC(toFloat64(ts))

TightBurstRule(line, p, c, d, firstTs, lastTs) ==
    /\ Contains(line, "(tight burst)") <=> (c > 1 /\ d = 0)
    /\ (c # 1 /\ ~(c > 1 /\ d = 0)) =>
          HasPrefix(line, "  + " \o p \o " failed " \o Itoa(c) \o "× ("
                          \o TsText(firstTs) \o " → " \o TsText(lastTs))

C14_TightBurstExactly ==
    \A i \in DOMAIN runs :
        \A p \in ProbesIn(CurrItems) \ ProbesIn(BaseItems) :
            \A line \in NewLines(runs[i].out, p) :
                TightBurstRule(line, p, toInt(Field(NewItem(p), "count")),
                               toFloat64(Field(NewItem(p), "duration_ms")),
                               Field(NewItem(p), "first_ts_ms"), Field(NewItem(p), "last_ts_ms"))

(***************************************************************************)
(* C15: a changed-probe line is `~ <probe> <baseCount>×→<currCount>×`,     *)
(* then `, exit_codes: <delta>` listing exactly the exit codes whose count *)
(* differs between baseline and current (an absent code counting 0), each  *)
(* as `<code>:<signed current - baseline>`; when no code differs the       *)
(* `, exit_codes:` part is left out.  The suffix of C16 may follow.        *)
(***************************************************************************)
\* The exit codes of probe p whose counts differ in run r.
DeltaCodes(r, p) ==
    {c \in DOMAIN r.norms.base[p] \cup DOMAIN r.norms.curr[p] :
        CountOf(r.norms.curr[p], c) # CountOf(r.norms.base[p], c)}

SignedText(n) == IF n > 0 THEN "+" \o Itoa(n) ELSE "-" \o Itoa(0 - n)

DeltaText(r, p) ==
    LET codes == SortInts(SetToSeq(DeltaCodes(r, p)))
    IN  Join([k \in 1..Len(codes) |->
                Itoa(codes[k]) \o ":"
                \o SignedText(CountOf(r.norms.curr[p], codes[k]) - CountOf(r.norms.base[p], codes[k]))],
             ", ")

ChangedHead(p) ==
    "  ~ " \o p \o " " \o Itoa(toInt(Field(LastItem(BaseItems, p), "count"))) \o "×→"
    \o Itoa(toInt(Field(LastItem(CurrItems, p), "count"))) \o "×"

Suffixes == {"", " (expected)", " (mixed)"}

ChangedLineRule(line, head, text) ==
    IF text = "" THEN line \in {head \o s : s \in Suffixes}
    ELSE line \in {head \o ", exit_codes: " \o text \o s : s \in Suffixes}

C15_ChangedLineDelta ==
    \A i \in DOMAIN runs :
        \A p \in CommonProbes :
            \A k \in LinesFor(PFSection(runs[i].out), "~", p) :
                ChangedLineRule(PFSection(runs[i].out)[k], ChangedHead(p), DeltaText(runs[i], p))

(***************************************************************************)
(* C16: a probe line ends in ` (expected)` iff ExpectedState is expected,  *)
(* in ` (mixed)` iff it is mixed, and in neither iff it is unexpected,     *)
(* where ExpectedState is taken of the current item's exit codes on a new  *)
(* or changed line and of the baseline item's exit codes on a resolved     *)
(* line.                                                                   *)
(***************************************************************************)
HasSuffix(s, suffix) ==
    Len(s) >= Len(suffix) /\ SubSeq(s, Len(s) - Len(suffix) + 1, Len(s)) = suffix

SuffixRule(line, state) ==
    /\ HasSuffix(line, " (expected)") <=> state = "expected"
    /\ HasSuffix(line, " (mixed)") <=> state = "mixed"

\* The item whose exit codes decide the suffix of a line with mark m.
SideItem(m, p) == IF m = "-" THEN LastItem(BaseItems, p) ELSE LastItem(CurrItems, p)

StateOf(it, p) == ExpectedState(p, getMap(it, "exit_codes"))

C16_SuffixSide ==
    \A i \in DOMAIN runs :
        LET sec == PFSection(runs[i].out)
        IN  \A p \in StateProbes, m \in Marks :
                \A k \in LinesFor(sec, m, p) : SuffixRule(sec[k], StateOf(SideItem(m, p), p))

\* A run with a changed line of a probe whose two items differ in
\* ExpectedState, next to a resolved line that carries a suffix.
C16_Witness ==
    \E i \in DOMAIN runs :
        LET sec == PFSection(runs[i].out)
        IN  /\ \E p \in CommonProbes :
                  /\ LinesFor(sec, "~", p) # {}
                  /\ StateOf(LastItem(BaseItems, p), p) # StateOf(LastItem(CurrItems, p), p)
            /\ \E p \in ProbesIn(BaseItems) :
                  \E k \in LinesFor(sec, "-", p) : HasSuffix(sec[k], " (expected)")

(***************************************************************************)
(* C17: in a storage-delta line the humanized delta carries a sign set by  *)
(* the emitter: `+` and the humanized magnitude when current > baseline,   *)
(* `-` and the humanized magnitude when current < baseline.                *)
(***************************************************************************)
\* The record of one type in each snapshot (NilRow when there is none).
BaseRecord(t) == Lookup(GroupByType(baselineRows), t)

CurrRecord(t) == Lookup(GroupByType(currentRows), t)

\* The lines of a report that start with a field name.
FieldLines(out, name) == {k \in DOMAIN out : HasPrefix(out[k], "  " \o name \o ": ")}

SignedDeltaRule(line, b, c) ==
    /\ c > b => Contains(line, " (+" \o fmtBytes(Some(c - b)) \o ", ")
    /\ c < b => Contains(line, " (-" \o fmtBytes(Some(b - c)) \o ", ")

C17_SignedStorageDelta ==
    \A i \in DOMAIN runs :
        \A j \in DOMAIN storageFields :
            LET f == storageFields[j]
            IN  \A k \in FieldLines(runs[i].out, TrimBytesSuffix(f)) :
                    SignedDeltaRule(runs[i].out[k],
                                    toFloat64(Field(BaseRecord("summary"), f)),
                                    toFloat64(Field(CurrRecord("summary"), f)))

(***************************************************************************)
(* C18: emitStorageDelta prints a line for a storage field exactly when    *)
(* the field is present in both summary records and current - baseline is  *)
(* not 0; the percent is delta / baseline * 100 to one decimal, and 0 when *)
(* baseline is 0; the section with its header is printed and true returned *)
(* iff there is such a line; nothing is printed when a summary record is   *)
(* absent.                                                                 *)
(***************************************************************************)
\* The storage fields (by index) for which a line is due.
StorageDue ==
    {j \in DOMAIN storageFields :
        /\ Field(BaseRecord("summary"), storageFields[j]) # None
        /\ Field(CurrRecord("summary"), storageFields[j]) # None
        /\ Field(CurrRecord("summary"), storageFields[j])[1]
              # Field(BaseRecord("summary"), storageFields[j])[1]}

\* The tenths of a percent within half a tenth of 100 * |delta| / |base|.
PctTenths(delta, base) ==
    {P \in {(1000 * Abs(delta)) \div Abs(base), (1000 * Abs(delta)) \div Abs(base) + 1} :
        2 * Abs(P * Abs(base) - 1000 * Abs(delta)) <= Abs(base)}

PctTexts(delta, base) ==
    IF base = 0 THEN {"+0.0"}
    ELSE {(IF (delta < 0) # (base < 0) THEN "-" ELSE "+") \o Fmt1(P) : P \in PctTenths(delta, base)}

OnlyType(t) ==
    /\ \A k \in DOMAIN baselineRows : baselineRows[k].type = t
    /\ \A k \in DOMAIN currentRows : currentRows[k].type = t

StorageLineRule(out, j, b, c) ==
    /\ Cardinality(FieldLines(out, TrimBytesSuffix(storageFields[j])))
          = (IF j \in StorageDue THEN 1 ELSE 0)
    /\ \A k \in FieldLines(out, TrimBytesSuffix(storageFields[j])) :
          \E t \in PctTexts(c - b, b) : HasSuffix(out[k], ", " \o t \o "%)")

C18_StorageDelta ==
    \A i \in DOMAIN runs :
        /\ \A j \in DOMAIN storageFields :
              StorageLineRule(runs[i].out, j,
                              toFloat64(Field(BaseRecord("summary"), storageFields[j])),
                              toFloat64(Field(CurrRecord("summary"), storageFields[j])))
        /\ (\E k \in DOMAIN runs[i].out : runs[i].out[k] = "## Storage delta") <=> StorageDue # {}
        /\ StorageDue # {} => runs[i].hasDeltas
        /\ (OnlyType("summary") /\ runs[i].hasDeltas) => StorageDue # {}
        /\ (BaseRecord("summary") = NilRow \/ CurrRecord("summary") = NilRow) =>
              \A k \in DOMAIN runs[i].out :
                  /\ runs[i].out[k] # "## Storage delta"
                  /\ \A j \in DOMAIN storageFields :
                        k \notin FieldLines(runs[i].out, TrimBytesSuffix(storageFields[j]))

\* A run that prints a field grown from a baseline of 0 and leaves out a
\* field that only the current record has.
C18_Witness ==
    \E i \in DOMAIN runs :
        /\ \E k \in DOMAIN runs[i].out : HasSuffix(runs[i].out[k], ", +0.0%)")
        /\ \E j \in DOMAIN storageFields :
              /\ Field(BaseRecord("summary"), storageFields[j]) = None
              /\ Field(CurrRecord("summary"), storageFields[j]) \notin {None, Some(0)}

(***************************************************************************)
(* C19: the count-delta and homebrew-delta emitters skip a field that is   *)
(* absent from the baseline record or from the current record (it is not   *)
(* read as 0 and reported), and print a line for a field present on both   *)
(* sides iff its two integer values differ.                                *)
(***************************************************************************)
IntLineDue(t, f) ==
    /\ Field(BaseRecord(t), f) # None
    /\ Field(CurrRecord(t), f) # None
    /\ toInt(Field(BaseRecord(t), f)) # toInt(Field(CurrRecord(t), f))

IntFieldsRule(out, t, fields) ==
    \A j \in DOMAIN fields : (FieldLines(out, fields[j]) # {}) <=> IntLineDue(t, fields[j])

C19_SkipAbsentCounts ==
    \A i \in DOMAIN runs :
        /\ IntFieldsRule(runs[i].out, "counts", countFields)
        /\ IntFieldsRule(runs[i].out, "homebrew_summary", brewFields)

(***************************************************************************)
(* C20: emitSecurityConfigDelta prints a line for a security field exactly *)
(* when the field is present in both records and its coerced boolean value *)
(* differs, as `off → on` or `on → off`; it prints nothing and returns     *)
(* false when no field flipped or a record is absent.                      *)
(***************************************************************************)
\* The boolean a present JSON value stands for: a boolean itself, a number
\* that is not 0.
Truthy(v) == (v.kind = "bool" /\ v.val) \/ (v.kind = "number" /\ v.val # 0)

\* The security fields (by index) whose value flipped.
Flipped ==
    {j \in DOMAIN secFields :
        /\ Field(BaseRecord("security_config"), secFields[j]) # None
        /\ Field(CurrRecord("security_config"), secFields[j]) # None
        /\ Truthy(Field(BaseRecord("security_config"), secFields[j])[1])
              # Truthy(Field(CurrRecord("security_config"), secFields[j])[1])}

FlipText(j) ==
    IF Truthy(Field(CurrRecord("security_config"), secFields[j])[1])
    THEN "  " \o secFields[j] \o ": off → on"
    ELSE "  " \o secFields[j] \o ": on → off"

C20_SecurityFlips ==
    \A i \in DOMAIN runs :
        /\ \A j \in DOMAIN secFields :
              /\ Cardinality(FieldLines(runs[i].out, secFields[j])) = (IF j \in Flipped THEN 1 ELSE 0)
              /\ \A k \in FieldLines(runs[i].out, secFields[j]) : runs[i].out[k] = FlipText(j)
        /\ (\E k \in DOMAIN runs[i].out : runs[i].out[k] = "## Security config changes")
              <=> Flipped # {}
        /\ Flipped # {} => runs[i].hasDeltas
        /\ (OnlyType("security_config") /\ runs[i].hasDeltas) => Flipped # {}

\* A run that prints a flip between a number and a boolean and is silent on
\* a field that only one record has.
C20_Witness ==
    \E i \in DOMAIN runs :
        /\ \E j \in Flipped :
              /\ Field(BaseRecord("security_config"), secFields[j])[1].kind = "number"
              /\ Field(CurrRecord("security_config"), secFields[j])[1].kind = "bool"
              /\ FieldLines(runs[i].out, secFields[j]) # {}
        /\ \E j \in DOMAIN secFields :
              /\ Field(BaseRecord("security_config"), secFields[j]) # None
              /\ Field(CurrRecord("security_config"), secFields[j]) = None

(***************************************************************************)
(* C21: the New-warnings section lists exactly the codes collected from    *)
(* the current rows and not from the baseline rows, each once, in          *)
(* ascending order; with no such code the section is not printed and the   *)
(* report has no delta.                                                    *)
(***************************************************************************)
warnHeader == "## New warnings"

\* What one row contributes: its string code, or the soft_failures marker of
\* a warning row without a string code.
CodeOfRow(row) ==
    IF StringAt(row, "type") # Some("warning") THEN None
    ELSE IF StringAt(row, "code") # None THEN Some(row.code)
    ELSE IF "soft_failures" \in DOMAIN row THEN Some("soft_failures")
    ELSE None

CodesOf(rows) == {CodeOfRow(rows[i])[1] : i \in {j \in DOMAIN rows : CodeOfRow(rows[j]) # None}}

NewCodes == CodesOf(currentRows) \ CodesOf(baselineRows)

WarnLine(c) == "  - " \o c

\* The printed lines: header, one line per code in ascending order, blank.
WarnSectionRule(out, new) ==
    /\ Len(out) = Cardinality(new) + 2
    /\ out[1] = warnHeader
    /\ out[Len(out)] = ""
    /\ {out[k] : k \in 2..(Len(out) - 1)} = {WarnLine(c) : c \in new}
    /\ \A k \in 2..(Len(out) - 2) : StrLess(out[k], out[k + 1])

\* The lines printed before the probe-failures section: with rows of
\* WarnRowPool only, the New-warnings section.
WarnPart(out) == SubSeq(out, 1, IndexOf(out, pfHeader, 1) - 1)

C21_NewWarnings ==
    \A i \in DOMAIN runs :
        IF NewCodes = {}
        THEN WarnPart(runs[i].out) = <<>> /\ ~runs[i].hasDeltas
        ELSE WarnSectionRule(WarnPart(runs[i].out), NewCodes) /\ runs[i].hasDeltas

\* Two new codes in ascending order, the second one the soft_failures marker
\* of a warning row whose code is not a string, next to a baseline row.
C21_Witness ==
    \E i \in DOMAIN runs :
        /\ WarnPart(runs[i].out)
              = <<warnHeader, WarnLine("net_timeout"), WarnLine("soft_failures"), "">>
        /\ Len(baselineRows) = 1

(***************************************************************************)
(* C22: ReadNDJSON returns, with no error, one row per non-blank line in   *)
(* file order, or an error and no rows; the first line that does not parse *)
(* is cited by its physical line number, and a failure to open or read the *)
(* file (an over-long line included) is not reported as a parse error.     *)
(***************************************************************************)
parseErrorForm == "invalid JSON at line "

\* The lines at which a read stops: not JSON, or over-long.
Stops(lines) == {k \in DOMAIN lines : lines[k].kind \in {"bad", "long"}}

FirstStop(lines) == CHOOSE k \in Stops(lines) : \A j \in Stops(lines) : k <= j

IsRowLine(line) == line.kind = "row"

\* The decoded rows of the non-blank lines, in file order.
RowsIn(lines) ==
    LET kept == SelectSeq(lines, IsRowLine)
    IN  [k \in DOMAIN kept |-> kept[k].row]

ReadRule(c) ==
    IF file = None THEN c.rows = <<>> /\ c.err # "" /\ ~HasPrefix(c.err, parseErrorForm)
    ELSE IF Stops(file[1]) = {} THEN c.err = "" /\ c.rows = RowsIn(file[1])
    ELSE IF file[1][FirstStop(file[1])].kind = "bad"
         THEN c.rows = <<>> /\ c.err = parseErrorForm \o Itoa(FirstStop(file[1]))
         ELSE c.rows = <<>> /\ c.err # "" /\ ~HasPrefix(c.err, parseErrorForm)

C22_AllOrNothing == \A i \in DOMAIN calls : ReadRule(calls[i])

\* A blank line and a decoded row come before the line that does not parse.
C22_Witness ==
    \E i \in DOMAIN calls :
        /\ file # None
        /\ Len(file[1]) = 3
        /\ file[1][1].kind = "blank"
        /\ file[1][2].kind = "row"
        /\ calls[i] = [err |-> "invalid JSON at line 3", rows |-> <<>>]

(***************************************************************************)
(* C23: the keys of GroupByType are exactly the non-empty string `type`    *)
(* values of the rows, rows without such a type are ignored, and each key  *)
(* maps to the last row of its type.                                       *)
(***************************************************************************)
\* The positions of the rows whose type is the string t.
RowsOfType(rows, t) == {k \in DOMAIN rows : StringAt(rows[k], "type") = Some(t)}

TypesIn(rows) == {rows[k].type : k \in {j \in DOMAIN rows : StringAt(rows[j], "type") # None}}

LastOf(S) == CHOOSE k \in S : \A j \in S : j <= k

GroupRule(rows, byType) ==
    /\ DOMAIN byType = TypesIn(rows) \ {""}
    /\ \A t \in DOMAIN byType : byType[t] = rows[LastOf(RowsOfType(rows, t))]

C23_LastRowOfType == \A i \in DOMAIN calls : GroupRule(calls[i].rows, calls[i].byType)

\* Two rows of one type with a row between them whose type is missing, empty
\* or not a string: the second row of the type is kept under the only key.
C23_Witness ==
    \E i \in DOMAIN calls :
        /\ Len(calls[i].rows) = 3
        /\ RowsOfType(calls[i].rows, "meta") = {1, 3}
        /\ calls[i].rows[1].n # calls[i].rows[3].n
        /\ DOMAIN calls[i].byType = {"meta"}
        /\ calls[i].byType["meta"].n = calls[i].rows[3].n

(***************************************************************************)
(* C24: the sections of a report appear in the order storage, counts,      *)
(* security config, homebrew, new warnings, probe failures; the closing    *)
(* `No changes detected between baseline and current.` line, when printed, *)
(* is the last line, after the probe-failures section.                     *)
(***************************************************************************)
sectionHeaders ==
    <<"## Storage delta", "## Count changes", "## Security config changes",
      "## Homebrew delta", warnHeader, pfHeader>>

\* The positions of the lines of a report that equal the given line.
Places(out, line) == {k \in DOMAIN out : out[k] = line}

SectionOrderRule(out) ==
    /\ \A a, b \in DOMAIN sectionHeaders :
          a < b => \A k \in Places(out, sectionHeaders[a]),
                      j \in Places(out, sectionHeaders[b]) : k < j
    /\ \A k \in Places(out, noChanges) :
          k = Len(out) /\ \E j \in Places(out, pfHeader) : j < k

C24_SectionOrder == \A i \in DOMAIN runs : SectionOrderRule(runs[i].out)

\* A report with all six sections, each with a change to show.
C24_Witness ==
    \E i \in DOMAIN runs :
        /\ \A a \in DOMAIN sectionHeaders : Places(runs[i].out, sectionHeaders[a]) # {}
        /\ \E k \in DOMAIN runs[i].out : HasPrefix(runs[i].out[k], "  ~ config.fdesetup_status ")

(***************************************************************************)
(* C25: loadCommands returns an error and no commands when the manifest is *)
(* missing, is not JSON, or holds a command that fails validation, be it a *)
(* command for another system; otherwise it returns the commands whose os  *)
(* list holds the detected system, in manifest order.                      *)
(***************************************************************************)
\* The command passes every check that looks at it alone.
CommandValid(cmd, goos) ==
    /\ commandIDPattern(TrimSpace(cmd.id))
    /\ TrimSpace(cmd.display) # ""
    /\ Len(cmd.os) >= 1
    /\ \A i \in DOMAIN cmd.os : cmd.os[i] \in {"mac", "linux", "windows"}
    /\ Len(cmd.exec) >= 1
    /\ TrimSpace(cmd.exec[1]) \in DOMAIN ExecTargets
    /\ ExecTargets[TrimSpace(cmd.exec[1])] \in
          (IF goos = "windows" THEN {"file", "noexec"} ELSE {"file"})

ManifestValid(commands, goos) ==
    /\ Len(commands) >= 1
    /\ \A i \in DOMAIN commands : CommandValid(commands[i], goos)
    /\ \A i, j \in DOMAIN commands :
          i < j => TrimSpace(commands[i].id) # TrimSpace(commands[j].id)

\* The positions of the commands for the detected system.
Supported(commands, os) == {i \in DOMAIN commands : \E k \in DOMAIN commands[i].os : commands[i].os[k] = os}

\* r lists the commands at the positions S, in order.
ListsInOrder(r, commands, S) ==
    /\ Len(r) = Cardinality(S)
    /\ \E f \in [DOMAIN r -> S] :
          /\ \A a, b \in DOMAIN r : a < b => f[a] < f[b]
          /\ \A a \in DOMAIN r : r[a] = commands[f[a]]

LoadRule(c) ==
    IF manifest.kind = "json" /\ ManifestValid(manifest.commands, c.goos)
    THEN /\ c.err = ""
         /\ ListsInOrder(c.commands, manifest.commands,
                         Supported(manifest.commands, c.detectedOS))
    ELSE c.err # "" /\ c.commands = <<>>

C25_ValidateThenFilter == \A i \in DOMAIN calls : LoadRule(calls[i])

\* A valid command for the detected system is followed by a command for
\* another system whose exec target does not exist: the load fails.
C25_Witness ==
    \E i \in DOMAIN calls :
        /\ manifest.kind = "json"
        /\ Len(manifest.commands) = 2
        /\ CommandValid(manifest.commands[1], calls[i].goos)
        /\ Supported(manifest.commands, calls[i].detectedOS) = {1}
        /\ calls[i].detectedOS = "mac"
        /\ manifest.commands[2].exec = <<"audit/missing.sh">>
        /\ calls[i].err # ""
        /\ calls[i].commands = <<>>

(***************************************************************************)
(* C26: parseRunArgs fails on an empty argument list and on a second       *)
(* argument other than `--`; otherwise the arguments are the id, then, if  *)
(* anything follows, `--` and the pass-through arguments as returned.      *)
(***************************************************************************)
ArgsRule(c) ==
    IF Len(args) = 0 \/ (Len(args) >= 2 /\ args[2] # "--")
    THEN c.err # ""
    ELSE /\ c.err = ""
         /\ \/ args = <<c.id>> /\ c.passthrough = <<>>
            \/ args = <<c.id, "--">> \o c.passthrough

C26_RunArgs == \A i \in DOMAIN calls : ArgsRule(calls[i])

\* The separator is itself passed through when it is given twice.
C26_Witness ==
    \E i \in DOMAIN calls :
        /\ args = <<"full", "--", "--">>
        /\ calls[i] = [id |-> "full", passthrough |-> <<"--">>, err |-> ""]

(***************************************************************************)
(* C27: every changed-probe line shows a change: the two printed counts    *)
(* differ or the line carries an `exit_codes:` delta; no line of the form  *)
(* `~ <probe> N×→N×` without a delta is printed.                           *)
(***************************************************************************)
PrintedCount(items, p) == Itoa(toInt(Field(LastItem(items, p), "count")))

VisibleChange(line, p) ==
    \/ PrintedCount(BaseItems, p) # PrintedCount(CurrItems, p)
    \/ Contains(line, ", exit_codes: ")

C27_ChangedLineShowsChange ==
    \A i \in DOMAIN runs :
        \A p \in CommonProbes :
            \A k \in LinesFor(PFSection(runs[i].out), "~", p) :
                VisibleChange(PFSection(runs[i].out)[k], p)

(***************************************************************************)
(* C28: two items of a probe with equal normalized exit-code maps have the *)
(* same ExpectedState, and a probe present on both sides is reported as    *)
(* changed iff its counts differ or its normalized exit-code maps differ.  *)
(***************************************************************************)
SameNorms(r, p) == r.norms.base[p] = r.norms.curr[p]

SameState(p) ==
    StateOf(LastItem(BaseItems, p), p) = StateOf(LastItem(CurrItems, p), p)

SameCount(p) ==
    toInt(Field(LastItem(BaseItems, p), "count")) = toInt(Field(LastItem(CurrItems, p), "count"))

ReportedChanged(r, p) == LinesFor(PFSection(r.out), "~", p) # {}

BasePF == Lookup(GroupByType(baselineRows), "probe_failures_summary")

CurrPF == Lookup(GroupByType(currentRows), "probe_failures_summary")

\* The probes of the entries with the given status.
WithStatus(entries, status) ==
    {entries[k].probe : k \in {j \in DOMAIN entries : entries[j].status = status}}

\* The maps normExitCodes returned, for the call with the sides swapped.
SwapNorms(norms) == [base |-> norms.curr, curr |-> norms.base]

SwapRule(fwd, bwd) ==
    /\ WithStatus(fwd, "new") = WithStatus(bwd, "resolved")
    /\ WithStatus(fwd, "resolved") = WithStatus(bwd, "new")
    /\ WithStatus(fwd, "changed") = WithStatus(bwd, "changed")

C29_SwapSymmetric ==
    \A i \in DOMAIN runs :
        SwapRule(buildProbeFailureEntries(BasePF, CurrPF, runs[i].norms),
                 buildProbeFailureEntries(CurrPF, BasePF, SwapNorms(runs[i].norms)))

(***************************************************************************)
(* C30: the loop of the interactive menu (runMenu) ends once standard      *)
(* input is exhausted: from every state where no input is left, the menu   *)
(* reaches its exit (a read failure at the selection prompt or at the      *)
(* run-again prompt does not re-prompt forever).                           *)
(***************************************************************************)
C30_MenuTerminates == (stdin = <<>>) ~> (menu.pc = "exited")

=============================================================================
